---- MODULE Spec2Model ----
(***************************************************************************)
(* State-machine model of the arbitrage engine's execution path:           *)
(*   - ExecutionStateMachine.execute   (execution/state_machine.py)        *)
(*   - RiskManager.approve             (risk/manager.py)                   *)
(*   - PolymarketExecutor / KalshiExecutor open-order tracking             *)
(*   - PolymarketExecutor._next_nonce                                      *)
(*   - KalshiExecutor session token    (_authed_request, _ensure_token)    *)
(*   - the four ingest adapters        (ingest/*.py)                       *)
(*   - the adapters' stream loops and close  (ingest/*.py)                   *)
(*   - RateLimiter.acquire                (matching/llm_client.py)           *)
(*   - LLMClient.complete, LLMValidator   (matching/llm_client.py, validators.py) *)
(*   - MatchingService.run                (matching/service.py)              *)
(*   - HardRulesValidator.validate        (matching/validators.py)           *)
(*   - SignalService.compute              (signals/service.py)               *)
(*   - DepthModel.expected_slippage_cents (signals/depth.py)                 *)
(*   - LeadLagAnalyzer.analyze            (signals/leadlag.py)               *)
(*   - simulate_hedged_execution          (backtest/simulator.py)            *)
(* Each component has its own specification over a shared variable tuple;  *)
(* a component's specification leaves the other components' variables      *)
(* at their initial values.                                                *)
(***************************************************************************)
EXTENDS Integers, Sequences, FiniteSets, TLC

VARIABLES
    \* ---- ExecutionStateMachine / ExecutionContext
    max_attempts,   \* ExecutionStateMachine.max_attempts
    ctx_state,      \* ExecutionContext.state
    ctx_attempts,   \* ExecutionContext.attempts
    ctx_events,     \* ExecutionContext.events
    pc,             \* position of the execute coroutine
    calls,          \* client calls made so far by execute, in order
    results,        \* ExecutionResults returned by execute
    \* ---- RiskManager / RiskStore
    exposure,       \* RiskStore: venue -> total notional
    approve_call,   \* the last approve call: its intent, result and store calls
    active_pairs,   \* intents approved so far, counted up to concurrent_pairs + 1
    \* ---- venue executors
    executor,       \* which executor class is running
    open_orders,    \* self._open_orders: intent_id -> (leg -> order_id)
    next_order_id,  \* venue side: the id the venue gives to its next order
    placed,         \* order_id -> the intent and leg it was placed for
    cancel_requests,\* venue side: order_id -> number of cancel requests received
    since_cancel,   \* intent_id -> cancel(intent) ran and no order was tracked since
    last_call,      \* the last executor call and what it did
    \* ---- PolymarketExecutor nonce
    clock,          \* int(time.time() * 1000), the wall clock in ms
    last_nonce,     \* self._last_nonce
    nonce_lock,     \* holder of self._nonce_lock, or NoTask
    task_pc,        \* position of each _submit_order coroutine
    task_nonce,     \* the nonce each coroutine got from _next_nonce
    returned,       \* values returned by _next_nonce, in order
    signed,         \* nonces of the order messages signed, in order
    \* ---- KalshiExecutor session token
    k_now,          \* time.time(), in seconds
    k_token,        \* self._access_token (0: None)
    k_expiry,       \* self._token_expiry
    k_lock,         \* holder of self._token_lock, or NoTask
    k_waiters,      \* coroutines waiting for self._token_lock, first come first
    k_next_token,   \* venue side: the next session token the login hands out
    k_issued,       \* session token -> the expiry it was issued with
    k_req,          \* each _authed_request coroutine: position and what it did
    k_writes,       \* the writes made to _access_token / _token_expiry
    \* ---- ingest adapters
    i_adapter,      \* which adapter class is running
    i_tracked_arg,  \* the tracked_markets argument given to __init__
    i_tracked,      \* self.tracked_markets
    i_max_depth,    \* self.max_depth
    i_pc,           \* position of stream_orderbooks
    i_raw,          \* the raw message (order book) the venue is sending
    i_out,          \* the snapshot yielded for i_raw, or NoSnapshot
    \* ---- the life of stream_orderbooks
    s_adapter,      \* which adapter class is streaming
    s_running,      \* self._running
    s_pc,           \* position of stream_orderbooks
    s_idx,          \* polling adapters: index of the next market in `markets`
    s_failures,     \* consecutive failed connections since the last good one
    s_delays,       \* the delays slept since the last good connection
    s_closed,       \* close() has been called
    s_yielded,      \* snapshots yielded so far
    s_after_close,  \* snapshots yielded after close() was called
    \* ---- RateLimiter
    rl_cfg,         \* max_requests and window_seconds of the limiter
    rl_now,         \* datetime.now(), in seconds
    rl_requests,    \* self._requests
    rl_pc,          \* position of each acquire coroutine
    rl_wake,        \* when each sleeping acquire is due to wake
    rl_granted,     \* the times at which acquire returned, in order
    \* ---- LLMClient and LLMValidator
    llm_cfg,        \* how the validator and its client were constructed
    llm_pc,         \* position of LLMValidator.validate: idle, primary, fallback
    llm_try,        \* HTTP attempts sent to each provider in the current call
    llm_retried,    \* the failures after which _call_api was retried
    usage_history,  \* LLMClient.usage_history
    llm_ok,         \* provider side: successful responses given, per provider
    llm_calls,      \* validate calls finished
    llm_pair,       \* the pair given to validate, as validate left it
    llm_ended,      \* how the last complete call ended: parsed, error
    \* ---- MatchingService.run
    m_validators,   \* MatchingService.validators, by kind
    m_pc,           \* position of run: next, validate, conclude, raised, returned
    m_idx,          \* index of the validator the inner loop is at
    m_flag,         \* validated.hard_rules_passed
    m_entry,        \* candidate.hard_rules_passed as the generator made it
    m_invoked,      \* indices of the validators invoked for this candidate
    m_returned,     \* the flags they returned
    m_out,          \* what became of the candidate: pending, yielded, dropped
    m_candidates,   \* candidates taken from the generator
    \* ---- candidate pair and HardRulesValidator
    h_poly,         \* the Polymarket market of the candidate
    h_kalshi,       \* the Kalshi market of the candidate
    h_allowed,      \* HardRulesValidator.allowed_mismatches
    h_pc,           \* markets, candidate, validated
    h_window,       \* pair.window
    h_passed,       \* pair.hard_rules_passed
    h_notes,        \* pair.notes: the failed checks, <<>> for None
    \* ---- SignalService.compute
    g_pc,           \* idle, requested, computed
    g_request,      \* the SignalRequest being computed
    g_result,       \* what compute returned
    g_computed,     \* compute calls finished
    \* ---- DepthModel.expected_slippage_cents
    d_max_levels,   \* DepthModel.max_levels
    d_has_books,    \* whether the two books were passed
    d_primary_asks, \* primary_book.asks
    d_hedge_bids,   \* hedge_book.bids
    d_size,         \* size_usd
    d_result,       \* what expected_slippage_cents returned
    \* ---- LeadLagAnalyzer.analyze, one pair
    ll_history,     \* LeadLagAnalyzer._leader_history[pair_key]
    ll_calls,       \* the leader each analyze call detected, "none" for None
    ll_result,      \* the last LeadLagResult
    \* ---- ExecutionSimulator.simulate_hedged_execution
    x_intent,       \* the ExecutionIntent
    x_primary_book, \* primary_book
    x_hedge_book,   \* hedge_book
    x_pc,           \* start, hedge, done
    x_primary_fill, \* primary_fill
    x_hedge_fill,   \* hedge_fill
    x_result        \* the ExecutionResult returned

smVars    == <<max_attempts, ctx_state, ctx_attempts, ctx_events, pc, calls, results>>
riskVars  == <<exposure, approve_call, active_pairs>>
execVars  == <<executor, open_orders, next_order_id, placed, cancel_requests,
               since_cancel, last_call>>
nonceVars == <<clock, last_nonce, nonce_lock, task_pc, task_nonce, returned, signed>>
authVars  == <<k_now, k_token, k_expiry, k_lock, k_waiters, k_next_token, k_issued,
               k_req, k_writes>>
ingestVars == <<i_adapter, i_tracked_arg, i_tracked, i_max_depth, i_pc, i_raw, i_out>>
streamVars == <<s_adapter, s_running, s_pc, s_idx, s_failures, s_delays, s_closed,
                s_yielded, s_after_close>>
rateVars  == <<rl_cfg, rl_now, rl_requests, rl_pc, rl_wake, rl_granted>>
llmVars == <<llm_cfg, llm_pc, llm_try, llm_retried, usage_history, llm_ok, llm_calls, llm_pair, llm_ended>>
matchVars == <<m_validators, m_pc, m_idx, m_flag, m_entry, m_invoked, m_returned, m_out, m_candidates>>
hardVars == <<h_poly, h_kalshi, h_allowed, h_pc, h_window, h_passed, h_notes>>
signalVars == <<g_pc, g_request, g_result, g_computed>>
depthVars == <<d_max_levels, d_has_books, d_primary_asks, d_hedge_bids, d_size, d_result>>
leadLagVars == <<ll_history, ll_calls, ll_result>>
simVars == <<x_intent, x_primary_book, x_hedge_book, x_pc, x_primary_fill, x_hedge_fill, x_result>>
vars      == <<smVars, riskVars, execVars, nonceVars, authVars, ingestVars, streamVars,
               rateVars,
               llmVars,
               matchVars,
               hardVars,
               signalVars,
               depthVars,
               leadLagVars,
               simVars>>

\* What a step of one component leaves alone: the other components' state.
notSM     == <<riskVars, execVars, nonceVars, authVars, ingestVars, streamVars,
               rateVars,
               llmVars,
               matchVars,
               hardVars,
               signalVars,
               depthVars,
               leadLagVars,
               simVars>>
notRisk   == <<smVars, execVars, nonceVars, authVars, ingestVars, streamVars,
               rateVars,
               llmVars,
               matchVars,
               hardVars,
               signalVars,
               depthVars,
               leadLagVars,
               simVars>>
notExec   == <<smVars, riskVars, nonceVars, authVars, ingestVars, streamVars,
               rateVars,
               llmVars,
               matchVars,
               hardVars,
               signalVars,
               depthVars,
               leadLagVars,
               simVars>>
notNonce  == <<smVars, riskVars, execVars, authVars, ingestVars, streamVars,
               rateVars,
               llmVars,
               matchVars,
               hardVars,
               signalVars,
               depthVars,
               leadLagVars,
               simVars>>
notAuth   == <<smVars, riskVars, execVars, nonceVars, ingestVars, streamVars,
               rateVars,
               llmVars,
               matchVars,
               hardVars,
               signalVars,
               depthVars,
               leadLagVars,
               simVars>>
notIngest == <<smVars, riskVars, execVars, nonceVars, authVars, streamVars,
               rateVars,
               llmVars,
               matchVars,
               hardVars,
               signalVars,
               depthVars,
               leadLagVars,
               simVars>>
notStream == <<smVars, riskVars, execVars, nonceVars, authVars, ingestVars,
               rateVars,
               llmVars,
               matchVars,
               hardVars,
               signalVars,
               depthVars,
               leadLagVars,
               simVars>>
notRate   == <<smVars, riskVars, execVars, nonceVars, authVars, ingestVars, streamVars,
               llmVars,
               matchVars,
               hardVars,
               signalVars,
               depthVars,
               leadLagVars,
               simVars>>
notLLM == <<smVars, riskVars, execVars, nonceVars, authVars, ingestVars, streamVars, rateVars,
               matchVars,
               hardVars,
               signalVars,
               depthVars,
               leadLagVars,
               simVars>>
notMatch == <<smVars, riskVars, execVars, nonceVars, authVars, ingestVars, streamVars, rateVars, llmVars,
               hardVars,
               signalVars,
               depthVars,
               leadLagVars,
               simVars>>
notHard == <<smVars, riskVars, execVars, nonceVars, authVars, ingestVars, streamVars, rateVars, llmVars, matchVars,
               signalVars,
               depthVars,
               leadLagVars,
               simVars>>
notSignal == <<smVars, riskVars, execVars, nonceVars, authVars, ingestVars, streamVars, rateVars, llmVars, matchVars, hardVars,
               depthVars,
               leadLagVars,
               simVars>>
notDepth == <<smVars, riskVars, execVars, nonceVars, authVars, ingestVars, streamVars, rateVars, llmVars, matchVars, hardVars, signalVars,
               leadLagVars,
               simVars>>
notLeadLag == <<smVars, riskVars, execVars, nonceVars, authVars, ingestVars, streamVars, rateVars, llmVars, matchVars, hardVars, signalVars, depthVars,
               simVars>>
notSim == <<smVars, riskVars, execVars, nonceVars, authVars, ingestVars, streamVars, rateVars, llmVars, matchVars, hardVars, signalVars, depthVars, leadLagVars>>

Range(s) == {s[k] : k \in DOMAIN s}

Max(a, b) == IF a >= b THEN a ELSE b

(***************************************************************************)
(* Bounds of the model.                                                    *)
(***************************************************************************)
MaxAttempts == 3

(***************************************************************************)
(* ExecutionStateMachine.execute                                           *)
(***************************************************************************)
ExecutionState == {"READY", "PRIMARY_PLACED", "HEDGE_PLACED", "SETTLED", "FAILED"}

hedge_completion_ms == 250

\* Elapsed times (ms) a hedge call can take: within, at and beyond the budget.
HedgeElapsed == {0, hedge_completion_ms, hedge_completion_ms + 1}

InitSM ==
    /\ max_attempts \in 0..MaxAttempts
    /\ ctx_state = "READY"
    /\ ctx_attempts = 0
    /\ ctx_events = <<>>
    /\ pc = "loop"
    /\ calls = <<>>
    /\ results = <<>>

\* A plausible slip: <= for <.
AttemptsRemain_OffByOne == ctx_attempts <= max_attempts

\* while ctx.attempts < self.max_attempts
AttemptsRemain == ctx_attempts < max_attempts

\* A plausible slip: the rejected-primary path cancels too.
PlacePrimary_CancelOnReject(primary_ok) ==
    /\ pc = "loop"
    /\ AttemptsRemain
    /\ ctx_attempts' = ctx_attempts + 1
    /\ calls' = Append(calls, [op |-> "place_primary", attempt |-> ctx_attempts + 1,
                               ret |-> primary_ok])
    /\ IF ~primary_ok
       THEN /\ ctx_events' = Append(ctx_events, "primary_rejected")
            /\ pc' = "cancel"
            /\ UNCHANGED ctx_state
       ELSE /\ ctx_state' = "PRIMARY_PLACED"
            /\ pc' = "hedge"
            /\ UNCHANGED ctx_events
    /\ UNCHANGED <<max_attempts, results, notSM>>

\* A plausible slip: the result of place_primary is not looked at.
PlacePrimary_IgnoresReject(primary_ok) ==
    /\ pc = "loop"
    /\ AttemptsRemain
    /\ ctx_attempts' = ctx_attempts + 1
    /\ calls' = Append(calls, [op |-> "place_primary", attempt |-> ctx_attempts + 1,
                               ret |-> primary_ok])
    /\ ctx_state' = "PRIMARY_PLACED"
    /\ pc' = "hedge"
    /\ UNCHANGED <<max_attempts, ctx_events, results, notSM>>

\* ctx.attempts += 1; primary = await client.place_primary(intent);
\* a rejected primary appends primary_rejected and continues the loop.
PlacePrimary(primary_ok) ==
    /\ pc = "loop"
    /\ AttemptsRemain
    /\ ctx_attempts' = ctx_attempts + 1
    /\ calls' = Append(calls, [op |-> "place_primary", attempt |-> ctx_attempts + 1,
                               ret |-> primary_ok])
    /\ IF ~primary_ok
       THEN /\ ctx_events' = Append(ctx_events, "primary_rejected")
            /\ pc' = "loop"
            /\ UNCHANGED ctx_state
       ELSE /\ ctx_state' = "PRIMARY_PLACED"
            /\ pc' = "hedge"
            /\ UNCHANGED ctx_events
    /\ UNCHANGED <<max_attempts, results, notSM>>

\* A plausible slip: a failed hedge marks the context FAILED and retries
\* without cancelling.
Hedge_NoCancel(hedge_ok, elapsed) ==
    /\ pc = "hedge"
    /\ calls' = Append(calls, [op |-> "hedge", attempt |-> ctx_attempts,
                               ret |-> hedge_ok, elapsed |-> elapsed])
    /\ IF ~hedge_ok
       THEN /\ ctx_events' = Append(ctx_events, "hedge_failed")
            /\ ctx_state' = "FAILED"
            /\ pc' = "loop"
            /\ UNCHANGED results
       ELSE /\ ctx_state' = "SETTLED"
            /\ results' = Append(results, [success |-> TRUE, message |-> <<"settled">>])
            /\ pc' = "done"
            /\ UNCHANGED ctx_events
    /\ UNCHANGED <<max_attempts, ctx_attempts, notSM>>

\* hedge = await client.hedge(intent), which takes `elapsed` ms; a failed hedge
\* appends hedge_failed and goes on to cancel, an accepted one settles and returns.
Hedge(hedge_ok, elapsed) ==
    /\ pc = "hedge"
    /\ calls' = Append(calls, [op |-> "hedge", attempt |-> ctx_attempts,
                               ret |-> hedge_ok, elapsed |-> elapsed])
    /\ IF ~hedge_ok
       THEN /\ ctx_events' = Append(ctx_events, "hedge_failed")
            /\ pc' = "cancel"
            /\ UNCHANGED <<ctx_state, results>>
       ELSE /\ ctx_state' = "SETTLED"
            /\ results' = Append(results, [success |-> TRUE, message |-> <<"settled">>])
            /\ pc' = "done"
            /\ UNCHANGED ctx_events
    /\ UNCHANGED <<max_attempts, ctx_attempts, notSM>>

\* await client.cancel(intent); ctx.state = FAILED; continue
Cancel ==
    /\ pc = "cancel"
    /\ calls' = Append(calls, [op |-> "cancel", attempt |-> ctx_attempts])
    /\ ctx_state' = "FAILED"
    /\ pc' = "loop"
    /\ UNCHANGED <<max_attempts, ctx_attempts, ctx_events, results, notSM>>

\* message = ";".join(ctx.events) or "exhausted attempts"
FailureMessage == IF ctx_events = <<>> THEN <<"exhausted attempts">> ELSE ctx_events

\* The loop ends with no attempt left: return ExecutionResult(success=False, ...)
ReturnExhausted ==
    /\ pc = "loop"
    /\ ~AttemptsRemain
    /\ results' = Append(results, [success |-> FALSE, message |-> FailureMessage])
    /\ pc' = "done"
    /\ UNCHANGED <<max_attempts, ctx_state, ctx_attempts, ctx_events, calls, notSM>>

NextSM ==
    \/ \E primary_ok \in BOOLEAN : PlacePrimary(primary_ok)
    \/ \E hedge_ok \in BOOLEAN, elapsed \in HedgeElapsed : Hedge(hedge_ok, elapsed)
    \/ Cancel
    \/ ReturnExhausted

\* await client.place_primary(intent) raises: execute has no try/except, the
\* exception leaves the coroutine after ctx.attempts was incremented.
PlacePrimaryRaises ==
    /\ pc = "loop"
    /\ AttemptsRemain
    /\ ctx_attempts' = ctx_attempts + 1
    /\ calls' = Append(calls, [op |-> "place_primary_raised",
                               attempt |-> ctx_attempts + 1])
    /\ pc' = "raised"
    /\ UNCHANGED <<max_attempts, ctx_state, ctx_events, results, notSM>>

\* await client.hedge(intent) raises: the exception leaves execute with the
\* context still PRIMARY_PLACED.
HedgeRaises ==
    /\ pc = "hedge"
    /\ calls' = Append(calls, [op |-> "hedge_raised", attempt |-> ctx_attempts])
    /\ pc' = "raised"
    /\ UNCHANGED <<max_attempts, ctx_state, ctx_attempts, ctx_events, results, notSM>>

\* execute against a client whose place_primary and hedge may raise.
NextRaising ==
    \/ \E primary_ok \in BOOLEAN : PlacePrimary(primary_ok)
    \/ \E hedge_ok \in BOOLEAN, elapsed \in HedgeElapsed : Hedge(hedge_ok, elapsed)
    \/ Cancel
    \/ ReturnExhausted
    \/ PlacePrimaryRaises
    \/ HedgeRaises

(***************************************************************************)
(* RiskManager.approve over a RiskStore.  Amounts are whole dollars.       *)
(***************************************************************************)
venue_cap == 5000

per_contract_limit == 250

concurrent_pairs == 5

Venues == {"polymarket", "kalshi"}

\* max_notional values of incoming intents (all >= 0): nothing, a usual size,
\* the per-contract limit, just above it, and above the whole venue cap.
Notionals == {0, 200, per_contract_limit, per_contract_limit + 1, venue_cap + 1}

\* Exposures the store can hold when the manager starts (none above the cap).
InitExposures == {0, venue_cap - 100}

\* An intent as approve reads it: intent.edge.primary.venue, the hedge venue
\* (the other venue of the pair) and intent.max_notional.
OtherVenue(v) == CHOOSE w \in Venues : w # v

RiskIntents ==
    {[primary |-> p, hedge |-> OtherVenue(p), max_notional |-> n] :
        p \in Venues, n \in Notionals}

NoApprove == [called |-> FALSE, intent |-> [primary |-> "none", hedge |-> "none",
              max_notional |-> 0], result |-> FALSE, store_calls |-> <<>>]

InitRisk ==
    /\ exposure \in [Venues -> InitExposures]
    /\ approve_call = NoApprove
    /\ active_pairs = 0

\* RiskStore.total_notional(venue)
total_notional(venue) == exposure[venue]

\* current + intent.max_notional > self.limits.venue_cap
ExceedsVenueCap_IgnoresAmount(current, amount) == current > venue_cap

ExceedsVenueCap(current, amount) == current + amount > venue_cap

\* intent.max_notional > self.limits.per_contract_limit
ExceedsPerContract(amount) == amount > per_contract_limit

ReadCall(venue) == [op |-> "total_notional", venue |-> venue, amount |-> 0]

IncrementCall(venue, amount) == [op |-> "increment_notional", venue |-> venue,
                                 amount |-> amount]

\* One more approved intent; nothing in RiskManager ever takes one off.  The
\* count stops one above concurrent_pairs.
Approved(count) == IF count > concurrent_pairs THEN count ELSE count + 1

\* A plausible slip: both venues of the pair are checked and charged.
approve_BothVenues(intent) ==
    LET amount == intent.max_notional
    IN  /\ IF \/ \E v \in {intent.primary, intent.hedge} :
                    ExceedsVenueCap(total_notional(v), amount)
              \/ ExceedsPerContract(amount)
           THEN /\ approve_call' = [called |-> TRUE, intent |-> intent, result |-> FALSE,
                                    store_calls |-> <<ReadCall(intent.primary),
                                                      ReadCall(intent.hedge)>>]
                /\ UNCHANGED <<exposure, active_pairs>>
           ELSE /\ exposure' = [v \in Venues |-> exposure[v] + amount]
                /\ active_pairs' = Approved(active_pairs)
                /\ approve_call' = [called |-> TRUE, intent |-> intent, result |-> TRUE,
                                    store_calls |-> <<ReadCall(intent.primary),
                                                      ReadCall(intent.hedge),
                                                      IncrementCall(intent.primary, amount),
                                                      IncrementCall(intent.hedge, amount)>>]
        /\ UNCHANGED notRisk

\* A plausible slip: the increment is made before the per-contract check.
approve_IncrementsBeforeLimit(intent) ==
    LET venue   == intent.primary
        current == total_notional(venue)
        amount  == intent.max_notional
    IN  /\ IF ExceedsVenueCap(current, amount)
           THEN /\ approve_call' = [called |-> TRUE, intent |-> intent, result |-> FALSE,
                                    store_calls |-> <<ReadCall(venue)>>]
                /\ UNCHANGED <<exposure, active_pairs>>
           ELSE /\ exposure' = [exposure EXCEPT ![venue] = @ + amount]
                /\ active_pairs' = IF ExceedsPerContract(amount) THEN active_pairs
                                   ELSE Approved(active_pairs)
                /\ approve_call' = [called |-> TRUE, intent |-> intent,
                                    result |-> ~ExceedsPerContract(amount),
                                    store_calls |-> <<ReadCall(venue),
                                                      IncrementCall(venue, amount)>>]
        /\ UNCHANGED notRisk

\* RiskManager.approve(intent)
approve(intent) ==
    LET venue   == intent.primary
        current == total_notional(venue)
        amount  == intent.max_notional
    IN  /\ IF ExceedsVenueCap(current, amount) \/ ExceedsPerContract(amount)
           THEN /\ approve_call' = [called |-> TRUE, intent |-> intent, result |-> FALSE,
                                    store_calls |-> <<ReadCall(venue)>>]
                /\ UNCHANGED <<exposure, active_pairs>>
           ELSE /\ exposure' = [exposure EXCEPT ![venue] = @ + amount]
                /\ active_pairs' = Approved(active_pairs)
                /\ approve_call' = [called |-> TRUE, intent |-> intent, result |-> TRUE,
                                    store_calls |-> <<ReadCall(venue),
                                                      IncrementCall(venue, amount)>>]
        /\ UNCHANGED notRisk

NextRisk == \E intent \in RiskIntents : approve(intent)

(***************************************************************************)
(* PolymarketExecutor / KalshiExecutor: place_primary, hedge, cancel and   *)
(* the _open_orders they keep.  The venue gives each accepted order a      *)
(* fresh id; order id 0 stands for "no order id" (None / key absent).      *)
(***************************************************************************)
MaxOrders == 3

Executors == {"polymarket", "kalshi"}

IntentIds == {"i1", "i2", "i3", "i4"}

Legs == {"primary", "hedge"}

OrderIds == 1..MaxOrders

\* The intents the executor is called with, by how their orders route:
\* primary_order missing ("none"), on a venue other than edge.primary.venue
\* ("mismatch") or right ("ok"); hedge_order missing, on a venue other than
\* edge.hedge.venue, on the other venue of the pair, or on this executor's venue.
\* hedge_on_primary: hedge_order.venue.value = edge.primary.venue (i4 is a pair
\* with both markets on one venue and a hedge order made out to the other).
ExecIntents ==
    {[intent_id |-> "i1", primary_order |-> "ok",       hedge_order |-> "same_venue",
      hedge_on_primary |-> TRUE],
     [intent_id |-> "i2", primary_order |-> "ok",       hedge_order |-> "other_venue",
      hedge_on_primary |-> FALSE],
     [intent_id |-> "i3", primary_order |-> "mismatch", hedge_order |-> "none",
      hedge_on_primary |-> FALSE],
     [intent_id |-> "i4", primary_order |-> "none",     hedge_order |-> "mismatch",
      hedge_on_primary |-> FALSE]}

\* What the venue answers to POST /orders: a non-2xx status, a 2xx body with an
\* order id, a 2xx body without one, or transport errors on all 3 tries.
SubmitOutcomes == {"rejected", "accepted", "accepted_no_id", "transport_error"}

NoPlacement == [intent_id |-> "none", leg |-> "none"]

NoOrders == [l \in Legs |-> 0]

\* A call record: the venue's answer to the POST /orders it made ("none":
\* nothing was submitted), the order ids it sent a venue cancel for, and
\* those of them whose cancel request failed.
NoCall == [op |-> "none", intent_id |-> "none", ret |-> "none", answer |-> "none",
           sent |-> {}, failed |-> {}]

InitExec ==
    /\ executor \in Executors
    /\ open_orders = [i \in IntentIds |-> NoOrders]
    /\ next_order_id = 1
    /\ placed = [o \in OrderIds |-> NoPlacement]
    /\ cancel_requests = [o \in OrderIds |-> 0]
    /\ since_cancel = [i \in IntentIds |-> FALSE]
    /\ last_call = NoCall

\* _submit_order: the OrderSubmissionResult for a venue answer (raised: the
\* retries are exhausted and the error propagates to the caller).
SubmitResult(outcome) ==
    CASE outcome = "rejected" ->
            [raised |-> FALSE, success |-> FALSE, order_id |-> 0]
      [] outcome = "accepted" ->
            [raised |-> FALSE, success |-> TRUE, order_id |-> next_order_id]
      [] outcome = "accepted_no_id" ->
            IF executor = "kalshi"
            THEN [raised |-> FALSE, success |-> FALSE, order_id |-> 0]
            ELSE [raised |-> FALSE, success |-> TRUE, order_id |-> 0]
      [] outcome = "transport_error" ->
            [raised |-> TRUE, success |-> FALSE, order_id |-> 0]

BoolRet(b) == IF b THEN "true" ELSE "false"

\* The executor returns without submitting anything.
ReturnsWithoutSubmit(op, intent, ret) ==
    /\ last_call' = [op |-> op, intent_id |-> intent.intent_id, ret |-> BoolRet(ret),
                     answer |-> "none", sent |-> {}, failed |-> {}]
    /\ UNCHANGED <<executor, open_orders, next_order_id, placed, cancel_requests,
                   since_cancel, notExec>>

\* result = await self._submit_order(order, leg=...);
\* if result.success and result.order_id: open_orders.setdefault(id, {})[leg] = order_id
\* return result.success
SubmitLeg(op, leg, intent, outcome) ==
    LET result == SubmitResult(outcome)
        i      == intent.intent_id
    IN  /\ outcome = "accepted" => next_order_id <= MaxOrders
        /\ IF result.raised
           THEN /\ last_call' = [op |-> op, intent_id |-> i, ret |-> "raise",
                                 answer |-> outcome, sent |-> {}, failed |-> {}]
                /\ UNCHANGED <<open_orders, next_order_id, placed, since_cancel>>
           ELSE /\ last_call' = [op |-> op, intent_id |-> i,
                                 ret |-> BoolRet(result.success),
                                 answer |-> outcome, sent |-> {}, failed |-> {}]
                /\ IF result.success /\ result.order_id # 0
                   THEN /\ open_orders' = [open_orders EXCEPT ![i][leg] = result.order_id]
                        /\ placed' = [placed EXCEPT ![result.order_id] =
                                         [intent_id |-> i, leg |-> leg]]
                        /\ next_order_id' = next_order_id + 1
                        /\ since_cancel' = [since_cancel EXCEPT ![i] = FALSE]
                   ELSE UNCHANGED <<open_orders, next_order_id, placed, since_cancel>>
        /\ UNCHANGED <<executor, cancel_requests, notExec>>

\* PolymarketExecutor.place_primary / KalshiExecutor.place_primary
place_primary(intent, outcome) ==
    IF intent.primary_order \in {"none", "mismatch"}
    THEN ReturnsWithoutSubmit("place_primary", intent, FALSE)
    ELSE SubmitLeg("place_primary", "primary", intent, outcome)

\* A plausible slip: a hedge order made out to the other venue is submitted.
hedge_SubmitsOtherVenue(intent, outcome) ==
    CASE intent.hedge_order = "none"        -> ReturnsWithoutSubmit("hedge", intent, TRUE)
      [] intent.hedge_order = "mismatch"    -> ReturnsWithoutSubmit("hedge", intent, FALSE)
      [] intent.hedge_order = "other_venue" -> SubmitLeg("hedge", "hedge", intent, outcome)
      [] intent.hedge_order = "same_venue"  -> SubmitLeg("hedge", "hedge", intent, outcome)

\* PolymarketExecutor.hedge / KalshiExecutor.hedge
hedge(intent, outcome) ==
    CASE intent.hedge_order = "none"        -> ReturnsWithoutSubmit("hedge", intent, TRUE)
      [] intent.hedge_order = "mismatch"    -> ReturnsWithoutSubmit("hedge", intent, FALSE)
      [] intent.hedge_order = "other_venue" -> ReturnsWithoutSubmit("hedge", intent, TRUE)
      [] intent.hedge_order = "same_venue"  -> SubmitLeg("hedge", "hedge", intent, outcome)

\* The order ids self._open_orders holds for the intent.
TrackedOrders(i) == {open_orders[i][l] : l \in Legs} \ {0}

\* A plausible slip: the entry is read with get() and stays in _open_orders.
cancel_KeepsEntry(intent) ==
    LET i   == intent.intent_id
        ids == TrackedOrders(i)
    IN  /\ cancel_requests' = [o \in OrderIds |->
                                  IF o \in ids THEN cancel_requests[o] + 1
                                  ELSE cancel_requests[o]]
        /\ since_cancel' = [since_cancel EXCEPT ![i] = TRUE]
        /\ \E failed \in SUBSET ids :
               last_call' = [op |-> "cancel", intent_id |-> i, ret |-> "none",
                             answer |-> "none", sent |-> ids, failed |-> failed]
        /\ UNCHANGED <<executor, open_orders, next_order_id, placed, notExec>>

\* PolymarketExecutor.cancel / KalshiExecutor.cancel: pop the intent's entry and
\* send one venue cancel per order id in it; a cancel request that fails
\* (cancel_order returns False on a non-2xx status, or raises) is only logged.
cancel(intent) ==
    LET i   == intent.intent_id
        ids == TrackedOrders(i)
    IN  /\ open_orders' = [open_orders EXCEPT ![i] = NoOrders]
        /\ cancel_requests' = [o \in OrderIds |->
                                  IF o \in ids THEN cancel_requests[o] + 1
                                  ELSE cancel_requests[o]]
        /\ since_cancel' = [since_cancel EXCEPT ![i] = TRUE]
        /\ \E failed \in SUBSET ids :
               last_call' = [op |-> "cancel", intent_id |-> i, ret |-> "none",
                             answer |-> "none", sent |-> ids, failed |-> failed]
        /\ UNCHANGED <<executor, next_order_id, placed, notExec>>

NextExec ==
    \/ \E intent \in ExecIntents, outcome \in SubmitOutcomes : place_primary(intent, outcome)
    \/ \E intent \in ExecIntents, outcome \in SubmitOutcomes : hedge(intent, outcome)
    \/ \E intent \in ExecIntents : cancel(intent)

(***************************************************************************)
(* PolymarketExecutor._next_nonce, called by concurrent _submit_order      *)
(* coroutines.  The wall clock may stall or jump in either direction.      *)
(***************************************************************************)
MaxClock == 2

MaxSubmits == 3

Tasks == {"t1", "t2"}

NoTask == "none"

InitNonce ==
    /\ clock \in 0..MaxClock
    /\ last_nonce = clock
    /\ nonce_lock = NoTask
    /\ task_pc = [t \in Tasks |-> "idle"]
    /\ task_nonce = [t \in Tasks |-> -1]
    /\ returned = <<>>
    /\ signed = <<>>

\* time.time() moves to any other value of the range.
ClockMoves(c) ==
    /\ c # clock
    /\ clock' = c
    /\ UNCHANGED <<last_nonce, nonce_lock, task_pc, task_nonce, returned, signed, notNonce>>

InFlight == {t \in Tasks : task_pc[t] # "idle"}

\* _submit_order starts and awaits self._next_nonce()
SubmitStarts(t) ==
    /\ task_pc[t] = "idle"
    /\ Len(signed) + Cardinality(InFlight) < MaxSubmits
    /\ task_pc' = [task_pc EXCEPT ![t] = "acquire"]
    /\ UNCHANGED <<clock, last_nonce, nonce_lock, task_nonce, returned, signed, notNonce>>

\* async with self._nonce_lock: (enter)
AcquireNonceLock(t) ==
    /\ task_pc[t] = "acquire"
    /\ nonce_lock = NoTask
    /\ nonce_lock' = t
    /\ task_pc' = [task_pc EXCEPT ![t] = "locked"]
    /\ UNCHANGED <<clock, last_nonce, task_nonce, returned, signed, notNonce>>

\* max(candidate, self._last_nonce + 1)
NextNonceValue_NoBump(candidate, last) == Max(candidate, last)

NextNonceValue(candidate, last) == Max(candidate, last + 1)

\* candidate = int(time.time() * 1000); self._last_nonce = max(...);
\* return self._last_nonce (leaving the lock)
NextNonce(t) ==
    /\ task_pc[t] = "locked"
    /\ nonce_lock = t
    /\ last_nonce' = NextNonceValue(clock, last_nonce)
    /\ task_nonce' = [task_nonce EXCEPT ![t] = last_nonce']
    /\ returned' = Append(returned, last_nonce')
    /\ nonce_lock' = NoTask
    /\ task_pc' = [task_pc EXCEPT ![t] = "sign"]
    /\ UNCHANGED <<clock, signed, notNonce>>

\* message = self._build_order_message(order, nonce=nonce, ...); sign_message(...)
SignOrder(t) ==
    /\ task_pc[t] = "sign"
    /\ signed' = Append(signed, task_nonce[t])
    /\ task_pc' = [task_pc EXCEPT ![t] = "idle"]
    /\ UNCHANGED <<clock, last_nonce, nonce_lock, task_nonce, returned, notNonce>>

NextNonceSteps ==
    \/ \E c \in 0..MaxClock : ClockMoves(c)
    \/ \E t \in Tasks : SubmitStarts(t)
    \/ \E t \in Tasks : AcquireNonceLock(t)
    \/ \E t \in Tasks : NextNonce(t)
    \/ \E t \in Tasks : SignOrder(t)

(***************************************************************************)
(* KalshiExecutor._authed_request / _ensure_token / _login_locked /        *)
(* _invalidate_token, run by concurrent coroutines on one event loop.      *)
(* A step is what a coroutine does between two suspension points (the      *)
(* awaits on the lock, the login POST and the request itself).             *)
(***************************************************************************)
MaxTicks == 2

token_refresh_slack_seconds == 60

Reqs == {"r1", "r2"}

\* expires_in (seconds) of a login answer: inside the refresh slack, beyond it.
Lifetimes == {30, 90}

\* Answers to the login POST: a KalshiAuthError (non-200, or no token in the
\* body), or a token with a lifetime.
LoginOutcomes == {0} \cup Lifetimes

\* Status codes of the venue's answer to the request itself.
Statuses == {200, 401, 500}

NewReq == [pc |-> "start", force |-> FALSE, sends |-> <<>>, responses |-> <<>>,
           logins |-> 0, forced_logins |-> 0, invalidations |-> 0]

InitAuth ==
    /\ k_now = 0
    /\ \E tok \in {0, 1}, exp \in Lifetimes :
          /\ k_token = tok
          /\ k_expiry = (IF tok = 0 THEN 0 ELSE exp)
          /\ k_issued = [t \in 1..(2 * Cardinality(Reqs) + 1) |->
                            IF t = 1 /\ tok = 1 THEN exp ELSE 0]
    /\ k_lock = NoTask
    /\ k_waiters = <<>>
    /\ k_next_token = 2
    /\ k_req = [r \in Reqs |-> NewReq]
    /\ k_writes = {}

\* Time passes while coroutines are suspended.
Tick ==
    /\ k_now < 30 * MaxTicks
    /\ k_now' = k_now + 30
    /\ UNCHANGED <<k_token, k_expiry, k_lock, k_waiters, k_next_token, k_issued,
                   k_req, k_writes, notAuth>>

\* A plausible slip: only the presence of the token is tested.
TokenFresh_IgnoresExpiry == k_token # 0

\* self._access_token and now < (self._token_expiry - self._token_refresh_slack)
TokenFresh == k_token # 0 /\ k_now < k_expiry - token_refresh_slack_seconds

\* headers = {"Authorization": f"Bearer {self._access_token}"};
\* response = await self._client.request(...)
\* The send is recorded with the token it carries, that token's expiry, the
\* time, and whether the token came from a login made in this _ensure_token.
Sent(req, token, expiry, by_login) ==
    [req EXCEPT !.pc = "sent",
                !.sends = Append(@, [token |-> token, expiry |-> expiry, at |-> k_now,
                                     by_login |-> by_login])]

\* _ensure_token once the lock is acquired: return at once with a fresh token
\* (and go on to send), or start the login POST with the lock held.
EnsureLocked(r, req) ==
    IF ~req.force /\ TokenFresh
    THEN /\ k_req' = [k_req EXCEPT ![r] = Sent(req, k_token, k_expiry, FALSE)]
         /\ k_lock' = NoTask
    ELSE /\ k_req' = [k_req EXCEPT ![r] =
                         [req EXCEPT !.pc = "login",
                                     !.logins = @ + 1,
                                     !.forced_logins = IF req.force THEN @ + 1 ELSE @]]
         /\ k_lock' = r

\* async with self._token_lock: a free lock nobody waits for is taken without
\* suspending, otherwise the coroutine queues up.
AcquireTokenLock(r, req) ==
    IF k_lock = NoTask /\ k_waiters = <<>>
    THEN /\ EnsureLocked(r, req)
         /\ UNCHANGED k_waiters
    ELSE /\ k_req' = [k_req EXCEPT ![r] = [req EXCEPT !.pc = "wait_lock"]]
         /\ k_waiters' = Append(k_waiters, r)
         /\ UNCHANGED k_lock

\* _authed_request starts: await self._ensure_token()
AuthedRequest(r) ==
    /\ k_req[r].pc = "start"
    /\ AcquireTokenLock(r, k_req[r])
    /\ UNCHANGED <<k_now, k_token, k_expiry, k_next_token, k_issued, k_writes, notAuth>>

\* The lock is released and handed to the first waiter.
LockGranted(r) ==
    /\ k_req[r].pc = "wait_lock"
    /\ k_lock = NoTask
    /\ k_waiters # <<>>
    /\ Head(k_waiters) = r
    /\ k_waiters' = Tail(k_waiters)
    /\ EnsureLocked(r, k_req[r])
    /\ UNCHANGED <<k_now, k_token, k_expiry, k_next_token, k_issued, k_writes, notAuth>>

TokenWrite(op, r) == [op |-> op, by |-> r, lock |-> k_lock]

\* _login_locked resumes with the login answer: raise KalshiAuthError, or
\* store the token and its expiry, leave the lock and send the request.
LoginReturns(r, lifetime) ==
    /\ k_req[r].pc = "login"
    /\ IF lifetime = 0
       THEN /\ k_req' = [k_req EXCEPT ![r].pc = "raised"]
            /\ UNCHANGED <<k_token, k_expiry, k_next_token, k_issued, k_writes>>
       ELSE /\ k_token' = k_next_token
            /\ k_expiry' = k_now + lifetime
            /\ k_next_token' = k_next_token + 1
            /\ k_issued' = [k_issued EXCEPT ![k_next_token] = k_now + lifetime]
            /\ k_writes' = k_writes \cup {TokenWrite("login", r)}
            /\ k_req' = [k_req EXCEPT ![r] =
                            Sent(k_req[r], k_next_token, k_now + lifetime, TRUE)]
    /\ k_lock' = NoTask
    /\ UNCHANGED <<k_now, k_waiters, notAuth>>

\* A plausible slip: every 401 is answered by another refresh and resend.
Response_RetriesEvery401(r, status) ==
    /\ k_req[r].pc = "sent"
    /\ Len(k_req[r].responses) < 3
    /\ LET req == [k_req[r] EXCEPT !.responses = Append(@, status)]
       IN  IF status = 401
           THEN /\ k_token' = 0
                /\ k_expiry' = 0
                /\ k_writes' = k_writes \cup {TokenWrite("invalidate", r)}
                /\ AcquireTokenLock(r, [req EXCEPT !.force = TRUE,
                                                   !.invalidations = @ + 1])
           ELSE /\ k_req' = [k_req EXCEPT ![r] =
                                [req EXCEPT !.pc = IF status >= 500 THEN "raised"
                                                   ELSE "returned"]]
                /\ UNCHANGED <<k_token, k_expiry, k_lock, k_waiters, k_writes>>
    /\ UNCHANGED <<k_now, k_next_token, k_issued, notAuth>>

\* The request's answer arrives.  A 401 to the first send: _invalidate_token(),
\* await self._ensure_token(force=True) and resend; any other answer, and the
\* answer to the resend, goes to the caller (a 5xx as an HTTPStatusError).
Response(r, status) ==
    /\ k_req[r].pc = "sent"
    /\ LET req == [k_req[r] EXCEPT !.responses = Append(@, status)]
       IN  IF status = 401 /\ Len(k_req[r].responses) = 0
           THEN /\ k_token' = 0
                /\ k_expiry' = 0
                /\ k_writes' = k_writes \cup {TokenWrite("invalidate", r)}
                /\ AcquireTokenLock(r, [req EXCEPT !.force = TRUE,
                                                   !.invalidations = @ + 1])
           ELSE /\ k_req' = [k_req EXCEPT ![r] =
                                [req EXCEPT !.pc = IF status >= 500 THEN "raised"
                                                   ELSE "returned"]]
                /\ UNCHANGED <<k_token, k_expiry, k_lock, k_waiters, k_writes>>
    /\ UNCHANGED <<k_now, k_next_token, k_issued, notAuth>>

NextAuth ==
    \/ Tick
    \/ \E r \in Reqs : AuthedRequest(r)
    \/ \E r \in Reqs : LockGranted(r)
    \/ \E r \in Reqs, lifetime \in LoginOutcomes : LoginReturns(r, lifetime)
    \/ \E r \in Reqs, status \in Statuses : Response(r, status)

(***************************************************************************)
(* Ingest adapters: PolymarketAdapter, PolymarketWebsocketAdapter,         *)
(* KalshiAdapter, KalshiWebsocketAdapter.  A raw message is one order book *)
(* of one market; prices are counted in hundredths, so a Polymarket price  *)
(* "0.40" and a Kalshi price of 40 cents are both 40, and an emitted price *)
(* of 1.0 is 100.                                                          *)
(***************************************************************************)
MaxLevels == 3     \* raw levels in one order book, both sides together

Adapters == {"polymarket", "polymarket_ws", "kalshi", "kalshi_ws"}

WsAdapters == {"polymarket_ws", "kalshi_ws"}

KalshiAdapters == {"kalshi", "kalshi_ws"}

Markets == {"m1", "m2"}

Depths == {1, 2}

\* tracked_markets: list[str] | None.  given = FALSE is None.
NoneList == [given |-> FALSE, list |-> {}]

TrackedArgs == {NoneList, [given |-> TRUE, list |-> {}], [given |-> TRUE, list |-> {"m1"}]}

\* bool(x) of a list, a set or None.
Truthy(t) == t.given /\ t.list # {}

\* set(tracked_markets) if tracked_markets else None
TrackedMarkets(arg) == IF Truthy(arg) THEN arg ELSE NoneList

\* What the venue can put in a book: a level with numbers in it (shape "ok"),
\* a level with its size missing ("short"), a level with text where a number
\* should be ("text").
RawLevels ==
    { [shape |-> "ok", price |-> p, size |-> 5] : p \in {0, 40, 60, 100} }
        \cup { [shape |-> "ok", price |-> 40, size |-> 0],
               [shape |-> "short", price |-> 40, size |-> 0],
               [shape |-> "text", price |-> 0, size |-> 0] }

\* What a websocket can deliver: a book, text that is not JSON, JSON that is
\* not an object.  The REST adapters read books only.
MessageKinds == {"book", "bad_json", "non_object"}

NoMessage == [kind |-> "none", market |-> "none", bids |-> <<>>, asks |-> <<>>]

NoSnapshot == [market_id |-> "none", bids |-> <<>>, asks |-> <<>>]

InitIngest ==
    /\ i_adapter \in Adapters
    /\ i_tracked_arg \in TrackedArgs
    /\ i_tracked = TrackedMarkets(i_tracked_arg)
    /\ i_max_depth \in Depths
    /\ i_pc = "done"
    /\ i_raw = NoMessage
    /\ i_out = NoSnapshot

\* levels[: self.max_depth]
Truncate(levels, depth) ==
    SubSeq(levels, 1, IF Len(levels) < depth THEN Len(levels) ELSE depth)

\* list.sort(key=price): stable, ascending.
RECURSIVE InsertAsc(_, _)
InsertAsc(l, s) ==
    IF s = <<>> THEN <<l>>
    ELSE IF l.price < Head(s).price THEN <<l>> \o s
    ELSE <<Head(s)>> \o InsertAsc(l, Tail(s))

RECURSIVE SortAsc(_)
SortAsc(s) ==
    IF s = <<>> THEN <<>>
    ELSE InsertAsc(s[Len(s)], SortAsc(SubSeq(s, 1, Len(s) - 1)))

\* list.sort(key=price, reverse=True): stable, descending.
RECURSIVE InsertDesc(_, _)
InsertDesc(l, s) ==
    IF s = <<>> THEN <<l>>
    ELSE IF l.price > Head(s).price THEN <<l>> \o s
    ELSE <<Head(s)>> \o InsertDesc(l, Tail(s))

RECURSIVE SortDesc(_)
SortDesc(s) ==
    IF s = <<>> THEN <<>>
    ELSE InsertDesc(s[Len(s)], SortDesc(SubSeq(s, 1, Len(s) - 1)))

\* if price > 0 and size > 0
Keep(l) == l.price > 0 /\ l.size > 0

KalshiAsk_NoComplement(p) == p

\* ask_price = 1.0 - price
KalshiAsk(p) == 100 - p

\* The loop over one side of the book: truncate, filter, append in order.
ParseSide(levels, depth) ==
    LET kept == SelectSeq(Truncate(levels, depth), Keep)
    IN  [k \in DOMAIN kept |-> [price |-> kept[k].price, size |-> kept[k].size]]

Complement(levels) ==
    [k \in DOMAIN levels |-> [price |-> KalshiAsk(levels[k].price), size |-> levels[k].size]]

\* _parse_orderbook_snapshot / _parse_ws_message for a book that parses.
ParseBook(adapter, raw, depth) ==
    IF adapter \in KalshiAdapters
    THEN [market_id |-> raw.market,
          bids |-> SortDesc(ParseSide(raw.bids, depth)),
          asks |-> SortAsc(Complement(ParseSide(raw.asks, depth)))]
    ELSE [market_id |-> raw.market,
          bids |-> ParseSide(raw.bids, depth),
          asks |-> ParseSide(raw.asks, depth)]

\* The levels the parser reads, in the order it reads them.
Scanned(raw, depth) == Truncate(raw.bids, depth) \o Truncate(raw.asks, depth)

\* The websocket parsers return None for a market that is not tracked,
\* before they read any level.
Untracked(tracked, market) == Truthy(tracked) /\ market \notin tracked.list

\* The exception the parse of a message raises, or "none".  A REST adapter
\* reads a level with .get(key, 0), so a missing size is 0; a websocket
\* adapter reads level[1], so a missing size is an IndexError.
ParseError(adapter, tracked, raw, depth) ==
    LET scan == Scanned(raw, depth)
        bad  == { k \in DOMAIN scan :
                    \/ scan[k].shape = "text"
                    \/ scan[k].shape = "short" /\ adapter \in WsAdapters }
        first == CHOOSE k \in bad : \A j \in bad : k <= j
    IN  IF raw.kind = "bad_json" THEN "JSONDecodeError"
        ELSE IF raw.kind = "non_object" THEN "AttributeError"
        ELSE IF adapter \in WsAdapters /\ Untracked(tracked, raw.market) THEN "none"
        ELSE IF bad = {} THEN "none"
        ELSE IF scan[first].shape = "short" THEN "IndexError"
        ELSE "ValueError"

\* The exceptions _parse_ws_message and the message loop catch; any other
\* leaves the `async with websockets.connect(...)` block.
CaughtInLoop == {"JSONDecodeError", "ValueError", "KeyError", "TypeError"}

\* The markets a REST adapter polls.
PolledMarkets == IF Truthy(i_tracked) THEN Markets \cap i_tracked.list ELSE Markets

\* The venue starts a message: a websocket frame, or the answer to
\* get_orderbook for a polled market.
NextMessage(market, kind) ==
    /\ i_pc = "done"
    /\ i_adapter \in WsAdapters \/ (kind = "book" /\ market \in PolledMarkets)
    /\ i_raw' = [kind |-> kind, market |-> market, bids |-> <<>>, asks |-> <<>>]
    /\ i_out' = NoSnapshot
    /\ i_pc' = "recv"
    /\ UNCHANGED <<i_adapter, i_tracked_arg, i_tracked, i_max_depth, notIngest>>

\* The venue puts one more level on a side of the book.
VenueAddsLevel(side, level) ==
    /\ i_pc = "recv"
    /\ i_raw.kind = "book"
    /\ Len(i_raw.bids) + Len(i_raw.asks) < MaxLevels
    /\ i_raw' = IF side = "bids" THEN [i_raw EXCEPT !.bids = Append(@, level)]
                                 ELSE [i_raw EXCEPT !.asks = Append(@, level)]
    /\ UNCHANGED <<i_adapter, i_tracked_arg, i_tracked, i_max_depth, i_pc, i_out, notIngest>>

\* One turn of the message loop of stream_orderbooks.
Deliver ==
    /\ i_pc = "recv"
    /\ LET err  == ParseError(i_adapter, i_tracked, i_raw, i_max_depth)
           snap == ParseBook(i_adapter, i_raw, i_max_depth)
       IN  /\ i_out' = IF /\ err = "none"
                          /\ ~(i_adapter \in WsAdapters /\ Untracked(i_tracked, i_raw.market))
                          /\ (snap.bids # <<>> \/ snap.asks # <<>>)
                       THEN snap ELSE NoSnapshot
           /\ i_pc' = IF i_adapter \in WsAdapters /\ err \notin CaughtInLoop \cup {"none"}
                      THEN "reconnect" ELSE "done"
    /\ UNCHANGED <<i_adapter, i_tracked_arg, i_tracked, i_max_depth, i_raw, notIngest>>

\* After reconnect_delay the adapter connects and subscribes again.
Reconnect ==
    /\ i_pc = "reconnect"
    /\ i_pc' = "done"
    /\ UNCHANGED <<i_adapter, i_tracked_arg, i_tracked, i_max_depth, i_raw, i_out, notIngest>>

NextIngest ==
    \/ \E market \in Markets, kind \in MessageKinds : NextMessage(market, kind)
    \/ \E side \in {"bids", "asks"}, level \in RawLevels : VenueAddsLevel(side, level)
    \/ Deliver
    \/ Reconnect

(***************************************************************************)
(* The life of stream_orderbooks: connecting, receiving, reconnecting      *)
(* after a failure, polling, and close().                                  *)
(***************************************************************************)
MaxFailures == 3   \* consecutive connection failures the venue may cause

MaxYields == 2     \* snapshots the venue gives the adapter reason to yield

reconnect_delay == 5

PolledList == <<"m1", "m2", "m3">>

\* The exceptions that end a connection: websockets' ConnectionClosed, or
\* any other Exception.
Failures == {"ConnectionClosed", "Exception"}

InitStream ==
    /\ s_adapter \in Adapters
    /\ s_running = TRUE
    /\ s_pc = (IF s_adapter \in WsAdapters THEN "connect" ELSE "poll")
    /\ s_idx = 1
    /\ s_failures = 0
    /\ s_delays = <<>>
    /\ s_closed = FALSE
    /\ s_yielded = 0
    /\ s_after_close = 0

\* `while self._running:` at the head of the loop.
LoopHead == IF s_running THEN (IF s_adapter \in WsAdapters THEN "connect" ELSE "poll")
                         ELSE "returned"

\* The two except clauses of the websocket adapters.
Failed(failure) ==
    IF s_running
    THEN /\ s_pc' = "sleep"
         /\ s_delays' = Append(s_delays, reconnect_delay)
    ELSE /\ s_pc' = (IF failure = "ConnectionClosed" THEN LoopHead ELSE "raised")
         /\ UNCHANGED s_delays

\* websockets.connect(...) succeeds and the markets are subscribed.
Connect ==
    /\ s_pc = "connect"
    /\ s_pc' = "recv"
    /\ s_failures' = 0
    /\ s_delays' = <<>>
    /\ UNCHANGED <<s_adapter, s_running, s_idx, s_closed, s_yielded, s_after_close, notStream>>

\* websockets.connect(...) or the subscription raises.
ConnectFails(failure) ==
    /\ s_pc = "connect"
    /\ s_failures < MaxFailures
    /\ s_failures' = s_failures + 1
    /\ Failed(failure)
    /\ UNCHANGED <<s_adapter, s_running, s_idx, s_closed, s_yielded, s_after_close, notStream>>

\* `async for message in ws` hands over a message with quotes in it.
Message ==
    /\ s_pc = "recv"
    /\ s_running => s_yielded < MaxYields
    /\ IF ~s_running
       THEN s_pc' = LoopHead /\ UNCHANGED <<s_yielded, s_after_close>>
       ELSE /\ s_pc' = "recv"
            /\ s_yielded' = s_yielded + 1
            /\ s_after_close' = (IF s_closed THEN s_after_close + 1 ELSE s_after_close)
    /\ UNCHANGED <<s_adapter, s_running, s_idx, s_failures, s_delays, s_closed, notStream>>

\* `async for message in ws` ends: the connection was closed normally.
StreamEnds ==
    /\ s_pc = "recv"
    /\ s_pc' = LoopHead
    /\ UNCHANGED <<s_adapter, s_running, s_idx, s_failures, s_delays, s_closed,
                   s_yielded, s_after_close, notStream>>

\* The open connection breaks.
ConnectionLost(failure) ==
    /\ s_pc = "recv"
    /\ s_failures < MaxFailures
    /\ s_failures' = s_failures + 1
    /\ Failed(failure)
    /\ UNCHANGED <<s_adapter, s_running, s_idx, s_closed, s_yielded, s_after_close, notStream>>

\* asyncio.sleep(...) returns.
Wake ==
    /\ s_pc = "sleep"
    /\ s_pc' = LoopHead
    /\ s_idx' = 1
    /\ UNCHANGED <<s_adapter, s_running, s_failures, s_delays, s_closed, s_yielded,
                   s_after_close, notStream>>

\* A polling adapter: one turn of `for market in markets`.
PollMarket(has_quotes) ==
    /\ s_pc = "poll"
    /\ has_quotes => s_yielded < MaxYields
    /\ s_yielded' = (IF has_quotes THEN s_yielded + 1 ELSE s_yielded)
    /\ s_after_close' = (IF has_quotes /\ s_closed THEN s_after_close + 1 ELSE s_after_close)
    /\ IF s_idx < Len(PolledList)
       THEN s_idx' = s_idx + 1 /\ s_pc' = "poll"
       ELSE s_idx' = s_idx /\ s_pc' = "sleep"
    /\ UNCHANGED <<s_adapter, s_running, s_failures, s_delays, s_closed, notStream>>

\* close(), called from another task while stream_orderbooks is suspended.
Close ==
    /\ ~s_closed
    /\ s_pc \notin {"returned", "raised"}
    /\ s_running' = FALSE
    /\ s_closed' = TRUE
    /\ UNCHANGED <<s_adapter, s_pc, s_idx, s_failures, s_delays, s_yielded, s_after_close, notStream>>

NextStream ==
    \/ Connect
    \/ \E failure \in Failures : ConnectFails(failure)
    \/ Message
    \/ StreamEnds
    \/ \E failure \in Failures : ConnectionLost(failure)
    \/ Wake
    \/ \E has_quotes \in BOOLEAN : PollMarket(has_quotes)
    \/ Close

(***************************************************************************)
(* RateLimiter.acquire  (matching/llm_client.py).  Each caller is one HTTP *)
(* attempt of the LLM client, which acquires its provider's limiter first. *)
(***************************************************************************)
MaxNow == 5        \* how far the clock runs

MaxGrants == 5     \* acquire calls that are let through in one run

Callers == {"c1", "c2"}

LimiterConfigs ==
    { [max_requests |-> 1, window_seconds |-> 2],
      [max_requests |-> 2, window_seconds |-> 2],
      [max_requests |-> 2, window_seconds |-> 3] }

InitRate ==
    /\ rl_cfg \in LimiterConfigs
    /\ rl_now = 0
    /\ rl_requests = <<>>
    /\ rl_pc = [c \in Callers |-> "idle"]
    /\ rl_wake = [c \in Callers |-> 0]
    /\ rl_granted = <<>>

RateTick ==
    /\ rl_now < MaxNow
    /\ rl_now' = rl_now + 1
    /\ UNCHANGED <<rl_cfg, rl_requests, rl_pc, rl_wake, rl_granted, notRate>>

\* A coroutine calls acquire.
AcquireCalled(c) ==
    /\ rl_pc[c] = "idle"
    /\ Len(rl_granted) < MaxGrants
    /\ rl_pc' = [rl_pc EXCEPT ![c] = "loop"]
    /\ UNCHANGED <<rl_cfg, rl_now, rl_requests, rl_wake, rl_granted, notRate>>

StillInWindow_OneEarly(req, cutoff) == req > cutoff + 1

\* req > cutoff
StillInWindow(req, cutoff) == req > cutoff

\* One turn of `while True` in acquire, up to its return or its sleep.
AcquireTurn(c) ==
    /\ rl_pc[c] = "loop"
    /\ LET cutoff == rl_now - rl_cfg.window_seconds
           kept   == SelectSeq(rl_requests, LAMBDA req : StillInWindow(req, cutoff))
       IN  IF Len(kept) < rl_cfg.max_requests
           THEN /\ rl_requests' = Append(kept, rl_now)
                /\ rl_granted' = Append(rl_granted, rl_now)
                /\ rl_pc' = [rl_pc EXCEPT ![c] = "idle"]
                /\ UNCHANGED rl_wake
           ELSE /\ rl_requests' = kept
                /\ IF kept[1] - cutoff > 0
                   THEN /\ rl_pc' = [rl_pc EXCEPT ![c] = "sleep"]
                        /\ rl_wake' = [rl_wake EXCEPT ![c] = rl_now + (kept[1] - cutoff)]
                   ELSE UNCHANGED <<rl_pc, rl_wake>>
                /\ UNCHANGED rl_granted
    /\ UNCHANGED <<rl_cfg, rl_now, notRate>>

\* asyncio.sleep(wait_time) returns, at its due time or later.
SleepReturns(c) ==
    /\ rl_pc[c] = "sleep"
    /\ rl_now >= rl_wake[c]
    /\ rl_pc' = [rl_pc EXCEPT ![c] = "loop"]
    /\ UNCHANGED <<rl_cfg, rl_now, rl_requests, rl_wake, rl_granted, notRate>>

NextRate ==
    \/ RateTick
    \/ \E c \in Callers : AcquireCalled(c)
    \/ \E c \in Callers : AcquireTurn(c)
    \/ \E c \in Callers : SleepReturns(c)

(***************************************************************************)
(* LLMClient.complete / _call_api and LLMValidator.validate  (matching/).  *)
(* Similarities are in hundredths (0.92 is 92); costs are in units of      *)
(* 1e-8 USD, so that the per-million prices are whole numbers.             *)
(***************************************************************************)
MaxCalls == 2      \* validate calls in one run

stop_after_attempt == 3

Providers == {"deepseek", "openai"}

\* fallback = "openai" if self.primary_provider == "deepseek" else "deepseek"
FallbackOf(primary) == IF primary = "deepseek" THEN "openai" ELSE "deepseek"

\* The constructor arguments: which keys are configured, the primary
\* provider, enable_fallback and min_score.
LLMConfigs ==
    [ primary_provider : Providers,
      enable_fallback  : BOOLEAN,
      keys             : {{}, {"deepseek"}, {"deepseek", "openai"}},
      min_score        : {0, 92} ]

\* What one HTTP attempt can come to.
Outcomes == {"ok", "HTTPStatusError", "TimeoutException", "ConnectError", "bad_body"}

\* retry_if_exception_type((httpx.HTTPStatusError, httpx.TimeoutException))
Retried == {"HTTPStatusError", "TimeoutException"}

Usages == { [prompt_tokens |-> 100, completion_tokens |-> 10],
            [prompt_tokens |-> 200, completion_tokens |-> 0] }

\* The message content of a response: JSON or not, and the similarity in it
\* (0 when the key is absent: response.get("similarity", 0.0)).
Contents ==
    { [json |-> FALSE, similarity |-> 0], [json |-> TRUE, similarity |-> 0],
      [json |-> TRUE, similarity |-> 50], [json |-> TRUE, similarity |-> 95] }

Replies ==
    { [outcome |-> o, usage |-> u, content |-> c] :
        o \in Outcomes, u \in Usages, c \in Contents }

NoPair == [hard_rules_passed |-> FALSE, llm_similarity |-> 0, validate |-> "none"]

InitLLM ==
    /\ llm_cfg \in LLMConfigs
    /\ llm_pc = "idle"
    /\ llm_try = [p \in Providers |-> 0]
    /\ llm_retried = {}
    /\ usage_history = <<>>
    /\ llm_ok = [p \in Providers |-> 0]
    /\ llm_calls = 0
    /\ llm_pair = NoPair
    /\ llm_ended = "none"

\* LLMClient.calculate_cost
calculate_cost(provider, prompt_tokens, completion_tokens) ==
    IF provider = "deepseek"
    THEN prompt_tokens * 14 + completion_tokens * 28
    ELSE prompt_tokens * 250 + completion_tokens * 1000

\* LLMClient.get_total_cost
RECURSIVE SumCost(_)
SumCost(history) ==
    IF history = <<>> THEN 0
    ELSE history[1].cost_usd + SumCost(Tail(history))

get_total_cost == SumCost(usage_history)

UsageAfter_AnyOutcome(outcome, provider, usage) ==
    Append(usage_history,
           [provider |-> provider,
            cost_usd |-> calculate_cost(provider, usage.prompt_tokens,
                                        usage.completion_tokens)])

\* _call_api appends to usage_history after raise_for_status and
\* response.json() went through.
UsageAfter(outcome, provider, usage) ==
    IF outcome = "ok"
    THEN Append(usage_history,
                [provider |-> provider,
                 cost_usd |-> calculate_cost(provider, usage.prompt_tokens,
                                             usage.completion_tokens)])
    ELSE usage_history

ShouldRetry_AnyError(outcome, attempt) == outcome # "ok" /\ attempt < stop_after_attempt

\* The @retry decorator of _call_api.
ShouldRetry(outcome, attempt) == outcome \in Retried /\ attempt < stop_after_attempt

\* LLMValidator._call_llm: the similarity of the parsed result, or of the
\* conservative answer when complete raised.
call_llm(ended, content) ==
    IF ended = "error" THEN 0 ELSE content.similarity

\* complete has ended; validate reads the similarity and sets the pair.
ValidateEnds(ended, content) ==
    LET similarity == call_llm(ended, content)
    IN  /\ llm_ended' = ended
        /\ llm_pair' =
              [hard_rules_passed |->
                   IF similarity < llm_cfg.min_score
                   THEN FALSE ELSE llm_pair.hard_rules_passed,
               llm_similarity |-> similarity,
               validate |-> "returned"]
        /\ llm_pc' = "idle"
        /\ llm_calls' = llm_calls + 1

\* _call_api raised, or the content of its answer did not parse.
ProviderFailed ==
    IF llm_pc = "primary" /\ llm_cfg.enable_fallback
    THEN /\ llm_pc' = "fallback"
         /\ UNCHANGED <<llm_calls, llm_pair, llm_ended>>
    ELSE ValidateEnds("error", [json |-> FALSE, similarity |-> 0])

\* validate(pair) is awaited: it builds the prompt and calls complete.
ValidateCalled(flag) ==
    /\ llm_pc = "idle"
    /\ llm_calls < MaxCalls
    /\ llm_pc' = "primary"
    /\ llm_try' = [p \in Providers |-> 0]
    /\ llm_retried' = {}
    /\ llm_pair' = [hard_rules_passed |-> flag, llm_similarity |-> 0, validate |-> "pending"]
    /\ llm_ended' = "none"
    /\ UNCHANGED <<llm_cfg, usage_history, llm_ok, llm_calls, notLLM>>

\* One attempt of _call_api without an API key: ValueError, nothing is sent.
AttemptWithoutKey ==
    /\ llm_pc \in {"primary", "fallback"}
    /\ LET provider == IF llm_pc = "primary" THEN llm_cfg.primary_provider
                       ELSE FallbackOf(llm_cfg.primary_provider)
       IN  provider \notin llm_cfg.keys
    /\ ProviderFailed
    /\ UNCHANGED <<llm_cfg, llm_try, llm_retried, usage_history, llm_ok, notLLM>>

\* One attempt of _call_api that is sent, and what complete does with it.
Attempt(reply) ==
    /\ llm_pc \in {"primary", "fallback"}
    /\ LET provider == IF llm_pc = "primary" THEN llm_cfg.primary_provider
                       ELSE FallbackOf(llm_cfg.primary_provider)
           attempt  == llm_try[provider] + 1
       IN  /\ provider \in llm_cfg.keys
           /\ llm_try' = [llm_try EXCEPT ![provider] = attempt]
           /\ usage_history' = UsageAfter(reply.outcome, provider, reply.usage)
           /\ llm_ok' = IF reply.outcome = "ok"
                        THEN [llm_ok EXCEPT ![provider] = @ + 1] ELSE llm_ok
           /\ IF reply.outcome = "ok"
              THEN /\ UNCHANGED llm_retried
                   /\ IF reply.content.json
                      THEN ValidateEnds("parsed", reply.content)
                      ELSE ProviderFailed
              ELSE IF ShouldRetry(reply.outcome, attempt)
              THEN /\ llm_retried' = llm_retried \cup {reply.outcome}
                   /\ UNCHANGED <<llm_pc, llm_calls, llm_pair, llm_ended>>
              ELSE /\ UNCHANGED llm_retried
                   /\ ProviderFailed
    /\ UNCHANGED <<llm_cfg, notLLM>>

NextLLM ==
    \/ \E flag \in BOOLEAN : ValidateCalled(flag)
    \/ AttemptWithoutKey
    \/ \E reply \in Replies : Attempt(reply)

(***************************************************************************)
(* MatchingService.run  (matching/service.py)                              *)
(***************************************************************************)
MaxCandidates == 3      \* candidates the generator hands out

\* The validators of the repository: HardRulesValidator.validate is an
\* ordinary method, LLMValidator.validate is a coroutine function.
ValidatorKinds == {"hard", "llm"}

ValidatorLists ==
    {<<>>} \cup { <<a>> : a \in ValidatorKinds }
           \cup { <<a, b>> : a \in ValidatorKinds, b \in ValidatorKinds }

InitMatch ==
    /\ m_validators \in ValidatorLists
    /\ m_pc = "next"
    /\ m_idx = 1
    /\ m_flag = FALSE
    /\ m_entry = FALSE
    /\ m_invoked = <<>>
    /\ m_returned = <<>>
    /\ m_out = "none"
    /\ m_candidates = 0

Breaks_Never(flag) == FALSE

\* if not validated.hard_rules_passed: break
Breaks(flag) == ~flag

\* for candidate in self.generator.generate(): validated = candidate
NextCandidate(flag) ==
    /\ m_pc = "next"
    /\ m_candidates < MaxCandidates
    /\ m_candidates' = m_candidates + 1
    /\ m_flag' = flag
    /\ m_entry' = flag
    /\ m_idx' = 1
    /\ m_invoked' = <<>>
    /\ m_returned' = <<>>
    /\ m_out' = "pending"
    /\ m_pc' = IF Len(m_validators) = 0 THEN "conclude" ELSE "validate"
    /\ UNCHANGED <<m_validators, notMatch>>

\* validated = validator.validate(validated), then the test of the flag: a
\* coroutine function returns a coroutine, which has no hard_rules_passed.
Validate(verdict) ==
    /\ m_pc = "validate"
    /\ m_invoked' = Append(m_invoked, m_idx)
    /\ IF m_validators[m_idx] = "llm"
       THEN /\ m_pc' = "raised"
            /\ UNCHANGED <<m_flag, m_returned, m_idx>>
       ELSE /\ m_flag' = verdict
            /\ m_returned' = Append(m_returned, verdict)
            /\ m_idx' = m_idx + 1
            /\ m_pc' = IF Breaks(verdict) \/ m_idx = Len(m_validators)
                       THEN "conclude" ELSE "validate"
    /\ UNCHANGED <<m_validators, m_entry, m_out, m_candidates, notMatch>>

\* if validated.hard_rules_passed: yield validated
Conclude ==
    /\ m_pc = "conclude"
    /\ m_out' = IF m_flag THEN "yielded" ELSE "dropped"
    /\ m_pc' = "next"
    /\ UNCHANGED <<m_validators, m_idx, m_flag, m_entry, m_invoked, m_returned,
                   m_candidates, notMatch>>

\* The generator has no further candidate: run returns.
Exhausted ==
    /\ m_pc = "next"
    /\ m_pc' = "returned"
    /\ UNCHANGED <<m_validators, m_idx, m_flag, m_entry, m_invoked, m_returned,
                   m_out, m_candidates, notMatch>>

NextMatch ==
    \/ \E flag \in BOOLEAN : NextCandidate(flag)
    \/ \E verdict \in BOOLEAN : Validate(verdict)
    \/ Conclude
    \/ Exhausted

(***************************************************************************)
(* Candidate pairs and HardRulesValidator.validate                         *)
(* (matching/candidate.py, matching/validators.py)                         *)
(* Times are in hours, threshold values in hundredths.                     *)
(***************************************************************************)
Sources == {"bls", "ap"}

\* A phrase of a title that one of the threshold patterns matches, by the
\* operator of the pattern and the number after it; a title is its phrases
\* from left to right.
Phrases == [op : {">=", ">"}, value : {300, 301, 305}]

Titles ==
    {<<>>} \cup { <<p>> : p \in Phrases }
           \cup { << [op |-> ">", value |-> 300], [op |-> ">=", value |-> 305] >> }

CandidateMarkets ==
    [open_time : {0, 1}, close_time : {1, 2, 30}, resolution_source : Sources,
     title : Titles]

\* allowed_resolution_mismatches
AllowLists == { {}, {<<"bls", "ap">>} }

NoWindow == [open_time |-> 0, close_time |-> 0]

NoMarket == [open_time |-> 0, close_time |-> 1, resolution_source |-> "bls",
             title |-> <<>>]

NoThreshold == [found |-> FALSE, op |-> "", value |-> 0]

InitHard ==
    /\ h_poly \in CandidateMarkets
    /\ h_kalshi \in CandidateMarkets
    /\ h_allowed \in AllowLists
    /\ h_pc = "markets"
    /\ h_window = NoWindow
    /\ h_passed = FALSE
    /\ h_notes = <<>>

Min(a, b) == IF a < b THEN a ELSE b

Abs(a) == IF a < 0 THEN -a ELSE a

\* The patterns in the order _extract_numeric_threshold tries them.
PatternOps == <<">=", ">", "<=", "<">>

\* re.search: the leftmost phrase of the title that the pattern matches.
RECURSIVE Search(_, _)
Search(op, title) ==
    IF title = <<>> THEN NoThreshold
    ELSE IF title[1].op = op
         THEN [found |-> TRUE, op |-> op, value |-> title[1].value]
         ELSE Search(op, Tail(title))

\* HardRulesValidator._extract_numeric_threshold: the first pattern, in
\* list order, that matches anywhere in the text.
RECURSIVE ExtractFrom(_, _)
ExtractFrom(k, title) ==
    IF k > Len(PatternOps) THEN NoThreshold
    ELSE IF Search(PatternOps[k], title).found
         THEN Search(PatternOps[k], title)
         ELSE ExtractFrom(k + 1, title)

extract_numeric_threshold(title) == ExtractFrom(1, title)

\* HardRulesValidator._check_time_window_alignment, on pair.window.
check_time_window_alignment(window) ==
    ~(Abs(window.close_time - window.open_time) < 1)

\* HardRulesValidator._check_threshold_alignment
check_threshold_alignment(primary_title, hedge_title) ==
    LET primary_threshold == extract_numeric_threshold(primary_title)
        hedge_threshold   == extract_numeric_threshold(hedge_title)
    IN  IF primary_threshold.found # hedge_threshold.found THEN FALSE
        ELSE IF primary_threshold.found /\ hedge_threshold.found
        THEN ~(\/ primary_threshold.op # hedge_threshold.op
               \/ Abs(primary_threshold.value - hedge_threshold.value) > 1)
        ELSE TRUE

\* The checks list of validate, and the names of the checks that failed.
failed_checks(window, primary_title, hedge_title) ==
    (IF check_time_window_alignment(window) THEN <<>> ELSE <<"time_window">>)
    \o (IF check_threshold_alignment(primary_title, hedge_title)
        THEN <<>> ELSE <<"threshold">>)

\* CandidateGenerator.generate builds the pair from two markets that passed
\* its blocking criteria.
GenerateCandidate ==
    /\ h_pc = "markets"
    /\ h_window' = [open_time  |-> Min(h_poly.open_time, h_kalshi.open_time),
                    close_time |-> Max(h_poly.close_time, h_kalshi.close_time)]
    /\ h_passed' = FALSE
    /\ h_notes' = <<>>
    /\ h_pc' = "candidate"
    /\ UNCHANGED <<h_poly, h_kalshi, h_allowed, notHard>>

\* HardRulesValidator.validate
HardRulesValidate ==
    /\ h_pc = "candidate"
    /\ LET failed == failed_checks(h_window, h_poly.title, h_kalshi.title)
       IN  IF failed # <<>>
           THEN /\ h_passed' = FALSE
                /\ h_notes' = failed
           ELSE /\ h_passed' = TRUE
                /\ UNCHANGED h_notes
    /\ h_pc' = "validated"
    /\ UNCHANGED <<h_poly, h_kalshi, h_allowed, h_window, notHard>>

NextHard ==
    \/ GenerateCandidate
    \/ HardRulesValidate

(***************************************************************************)
(* SignalService.compute  (signals/service.py)                             *)
(* Prices are in thousandths of a dollar, edges and costs in tenths of a   *)
(* cent, probabilities in percent.                                         *)
(***************************************************************************)
MaxSignals == 2      \* compute calls in one run

min_edge_cents == 25

min_hedge_probability == 99

\* SignalRequest with what the friction and depth models answer for it, and
\* the probability that the hedge leg fills, which no field of the request
\* carries.
SignalRequests ==
    [ primary_price     : {400, 500},
      hedge_price       : {420, 525, 530, 560},
      friction_cost     : {0, 5, 10},
      slippage          : {0, 5},
      hedge_probability : {90, 99, 100} ]

NoRequest == [primary_price |-> 0, hedge_price |-> 0, friction_cost |-> 0,
              slippage |-> 0, hedge_probability |-> 0]

NoEdge == [emitted |-> FALSE, net_edge_cents |-> 0]

InitSignal ==
    /\ g_pc = "idle"
    /\ g_request = NoRequest
    /\ g_result = NoEdge
    /\ g_computed = 0

\* if net_edge < self.min_edge_cents: return None
BelowMinimum(net_edge) == net_edge < min_edge_cents

\* A pair and its prices are handed to the service.
Requested(request) ==
    /\ g_pc \in {"idle", "computed"}
    /\ g_computed < MaxSignals
    /\ g_request' = request
    /\ g_result' = NoEdge
    /\ g_pc' = "requested"
    /\ UNCHANGED <<g_computed, notSignal>>

\* SignalService.compute
Compute ==
    /\ g_pc = "requested"
    /\ LET gross_edge == g_request.hedge_price - g_request.primary_price
           net_edge   == gross_edge - g_request.friction_cost - g_request.slippage
       IN  g_result' = IF BelowMinimum(net_edge) THEN NoEdge
                       ELSE [emitted |-> TRUE, net_edge_cents |-> net_edge]
    /\ g_pc' = "computed"
    /\ g_computed' = g_computed + 1
    /\ UNCHANGED <<g_request, notSignal>>

NextSignal ==
    \/ \E request \in SignalRequests : Requested(request)
    \/ Compute

(***************************************************************************)
(* DepthModel.expected_slippage_cents  (signals/depth.py)                  *)
(* Prices and notionals are in tenths of a dollar, sizes in contracts; a   *)
(* slippage is the fraction num / den of a tenth of a dollar.              *)
(***************************************************************************)
DepthLevels == [price : {5, 6}, size : {1, 2}]

\* Books of up to three levels, best price first on either side.
AskBooks ==
    {<<>>} \cup { <<a>> : a \in DepthLevels }
           \cup { <<a, b>> \in DepthLevels \X DepthLevels : a.price <= b.price }
           \cup { <<a, b, c>> \in DepthLevels \X DepthLevels \X DepthLevels :
                    a.price < b.price /\ b = c }

BidBooks ==
    {<<>>} \cup { <<a>> : a \in DepthLevels }
           \cup { <<a, b>> \in DepthLevels \X DepthLevels : a.price >= b.price }
           \cup { <<a, b, c>> \in DepthLevels \X DepthLevels \X DepthLevels :
                    a.price > b.price /\ b = c }

TargetSizes == {5, 10, 25}

NoSlippage == [kind |-> "none", num |-> 0, den |-> 1]

InitDepth ==
    /\ d_max_levels \in {1, 3}
    /\ d_has_books \in BOOLEAN
    /\ d_primary_asks \in AskBooks
    /\ d_hedge_bids \in BidBooks
    /\ d_size \in TargetSizes
    /\ d_result = NoSlippage

\* levels[: self.max_levels]
TopLevels(levels, max_levels) ==
    SubSeq(levels, 1, IF Len(levels) < max_levels THEN Len(levels) ELSE max_levels)

\* The loop of _calculate_vwap: levels taken whole add their notional and
\* size; the first level larger than what remains is taken in part
\* (remaining / price contracts) and ends the loop.  The total size is
\* (size_num / size_den) contracts.
RECURSIVE VwapLoop(_, _, _, _)
VwapLoop(levels, remaining, total_cost, whole_size) ==
    IF levels = <<>>
    THEN [total_cost |-> total_cost, size_num |-> whole_size, size_den |-> 1]
    ELSE LET level == levels[1]
             level_notional == level.price * level.size
         IN  IF level_notional <= remaining
             THEN VwapLoop(Tail(levels), remaining - level_notional,
                           total_cost + level_notional, whole_size + level.size)
             ELSE [total_cost |-> total_cost + remaining,
                   size_num   |-> whole_size * level.price + remaining,
                   size_den   |-> level.price]

\* DepthModel._calculate_vwap: total_cost / total_size as a fraction, 0 for
\* an empty side or a total size of 0.
calculate_vwap(levels, max_levels, target_size) ==
    IF levels = <<>> THEN [num |-> 0, den |-> 1]
    ELSE LET filled == VwapLoop(TopLevels(levels, max_levels), target_size, 0, 0)
         IN  IF filled.size_num = 0 THEN [num |-> 0, den |-> 1]
             ELSE [num |-> filled.total_cost * filled.size_den,
                   den |-> filled.size_num]

\* abs(vwap - best) * size_usd / best
LegSlippage(vwap, best, size) ==
    [num |-> Abs(vwap.num - best * vwap.den) * size, den |-> vwap.den * best]

\* DepthModel.expected_slippage_cents
ExpectedSlippage ==
    /\ d_result = NoSlippage
    /\ d_result' =
          IF ~d_has_books
          THEN [kind |-> "no_book_estimate", num |-> d_size, den |-> 100]
          ELSE LET primary_vwap == calculate_vwap(d_primary_asks, d_max_levels, d_size)
                   hedge_vwap   == calculate_vwap(d_hedge_bids, d_max_levels, d_size)
               IN  IF primary_vwap.num = 0 \/ hedge_vwap.num = 0
                   THEN [kind |-> "penalty", num |-> 2 * d_size, den |-> 100]
                   ELSE LET p == LegSlippage(primary_vwap, d_primary_asks[1].price, d_size)
                            h == LegSlippage(hedge_vwap, d_hedge_bids[1].price, d_size)
                        IN  [kind |-> "vwap",
                             num  |-> p.num * h.den + h.num * p.den,
                             den  |-> p.den * h.den]
    /\ UNCHANGED <<d_max_levels, d_has_books, d_primary_asks, d_hedge_bids, d_size,
                   notDepth>>

NextDepth == ExpectedSlippage

(***************************************************************************)
(* LeadLagAnalyzer.analyze  (signals/leadlag.py)                           *)
(* Correlations are in hundredths; the cross-correlation of the bars is    *)
(* an input of each call.                                                  *)
(***************************************************************************)
MaxAnalyses == 5      \* analyze calls for the pair in one run

stability_window == 4

min_correlation == 30

venue_a == "polymarket"

venue_b == "kalshi"

\* What _compute_cross_correlation returns: (optimal_lag, correlation).
CrossCorrelations == [optimal_lag : {-2, 0, 2}, correlation : {-50, 10, 30, 80}]

NoLeadLag == [leader |-> "none", correlation |-> 0, stable |-> FALSE]

InitLeadLag ==
    /\ ll_history = <<>>
    /\ ll_calls = <<>>
    /\ ll_result = NoLeadLag

\* deque(maxlen=self.stability_window).append
DequeAppend(history, leader) ==
    IF Len(history) < stability_window THEN Append(history, leader)
    ELSE Append(Tail(history), leader)

\* history.count(leader)
CountIn(history, leader) ==
    Cardinality({ k \in DOMAIN history : history[k] = leader })

IsStable_TwoSuffice(history, leader) ==
    /\ Len(history) >= 2
    /\ leader # "none"
    /\ CountIn(history, leader) >= 2

\* The stability check of analyze.
IsStable(history, leader) ==
    /\ Len(history) >= 3
    /\ leader # "none"
    /\ CountIn(history, leader) >= 3

\* analyze with fewer than 20 bars stored for the pair: the early return.
AnalyzeTooFewBars ==
    /\ Len(ll_calls) < MaxAnalyses
    /\ ll_result' = NoLeadLag
    /\ ll_calls' = Append(ll_calls, "none")
    /\ UNCHANGED <<ll_history, notLeadLag>>

\* analyze with enough bars, from the cross-correlation on.
Analyze(cc) ==
    /\ Len(ll_calls) < MaxAnalyses
    /\ LET leader == IF Abs(cc.correlation) >= min_correlation
                     THEN IF cc.optimal_lag > 0 THEN venue_a
                          ELSE IF cc.optimal_lag < 0 THEN venue_b
                          ELSE "none"
                     ELSE "none"
           history == IF leader # "none" THEN DequeAppend(ll_history, leader)
                      ELSE ll_history
       IN  /\ ll_history' = history
           /\ ll_calls' = Append(ll_calls, leader)
           /\ ll_result' = [leader |-> leader, correlation |-> cc.correlation,
                            stable |-> IsStable(history, leader)]
    /\ UNCHANGED notLeadLag

NextLeadLag ==
    \/ AnalyzeTooFewBars
    \/ \E cc \in CrossCorrelations : Analyze(cc)

(***************************************************************************)
(* ExecutionSimulator.simulate_hedged_execution  (backtest/simulator.py)   *)
(* Prices and notionals are in cents, sizes in contracts, latencies in ms. *)
(***************************************************************************)
hedge_timeout_ms == 250

\* Values of random.randint(100, self.latency_p50).
Latencies == {100, 150, 200}

\* One side of a book, best price first.
SimAsks ==
    { <<>>,
      << [price |-> 50, size |-> 1] >>,
      << [price |-> 50, size |-> 4] >>,
      << [price |-> 25, size |-> 2], [price |-> 50, size |-> 2] >>,
      << [price |-> 25, size |-> 1], [price |-> 25, size |-> 1],
         [price |-> 50, size |-> 1], [price |-> 50, size |-> 8] >> }

SimBids ==
    { <<>>,
      << [price |-> 50, size |-> 1] >>,
      << [price |-> 50, size |-> 4] >>,
      << [price |-> 50, size |-> 2], [price |-> 25, size |-> 2] >>,
      << [price |-> 50, size |-> 1], [price |-> 50, size |-> 1],
         [price |-> 25, size |-> 1], [price |-> 25, size |-> 8] >> }

SimBooks == [asks : SimAsks, bids : SimBids]

\* intent.edge.recommended_primary_side and intent.max_notional
SimIntents == [recommended_primary_side : {"buy", "sell"}, max_notional : {100, 200}]

NoFill == [success |-> FALSE, filled_cost |-> 0, filled_size |-> 0, latency_ms |-> 0,
           reason |-> "none"]

NoSimResult == [success |-> FALSE, hedge_completed_ms |-> 0, message |-> "none"]

InitSim ==
    /\ x_intent \in SimIntents
    /\ x_primary_book \in SimBooks
    /\ x_hedge_book \in SimBooks
    /\ x_pc = "start"
    /\ x_primary_fill = NoFill
    /\ x_hedge_fill = NoFill
    /\ x_result = NoSimResult

\* The loop of _execute_against_book over levels[:3].
RECURSIVE WalkBook(_, _, _, _)
WalkBook(levels, remaining, total_cost, total_size) ==
    IF levels = <<>> \/ remaining <= 0
    THEN [total_cost |-> total_cost, total_size |-> total_size]
    ELSE LET fill_size == Min(remaining, levels[1].size)
         IN  WalkBook(Tail(levels), remaining - fill_size,
                      total_cost + fill_size * levels[1].price, total_size + fill_size)

\* ExecutionSimulator._execute_against_book; the filled price is
\* filled_cost / filled_size.
execute_against_book(book, side, target_size, latency) ==
    LET levels == IF side = "buy" THEN book.asks ELSE book.bids
    IN  IF levels = <<>>
        THEN [success |-> FALSE, filled_cost |-> 0, filled_size |-> 0,
              latency_ms |-> latency, reason |-> "No liquidity available"]
        ELSE LET walked == WalkBook(TopLevels(levels, 3), target_size, 0, 0)
             IN  IF walked.total_size = 0
                 THEN [success |-> FALSE, filled_cost |-> 0, filled_size |-> 0,
                       latency_ms |-> latency, reason |-> "Insufficient liquidity"]
                 ELSE [success |-> TRUE, filled_cost |-> walked.total_cost,
                       filled_size |-> walked.total_size, latency_ms |-> latency,
                       reason |-> "none"]

TimedOut_AtBudget(total_latency_ms) == total_latency_ms >= hedge_timeout_ms

\* if total_latency_ms > self.hedge_timeout
TimedOut(total_latency_ms) == total_latency_ms > hedge_timeout_ms

\* simulate_hedged_execution up to the primary leg and its test.
PrimaryLeg(latency) ==
    /\ x_pc = "start"
    /\ LET target_size == IF x_primary_book.asks # <<>>
                          THEN x_intent.max_notional \div x_primary_book.asks[1].price
                          ELSE 0
           primary_fill == execute_against_book(x_primary_book,
                               x_intent.recommended_primary_side, target_size, latency)
       IN  /\ x_primary_fill' = primary_fill
           /\ IF ~primary_fill.success
              THEN /\ x_result' = [success |-> FALSE, hedge_completed_ms |-> 0,
                                   message |-> "Primary failed"]
                   /\ x_pc' = "done"
              ELSE /\ x_pc' = "hedge"
                   /\ UNCHANGED x_result
    /\ UNCHANGED <<x_intent, x_primary_book, x_hedge_book, x_hedge_fill, notSim>>

\* The hedge leg and the rest of simulate_hedged_execution.
HedgeLeg(latency) ==
    /\ x_pc = "hedge"
    /\ LET hedge_side == IF x_intent.recommended_primary_side = "buy"
                         THEN "sell" ELSE "buy"
           hedge_fill == execute_against_book(x_hedge_book, hedge_side,
                             x_primary_fill.filled_size, latency)
           total_latency_ms == x_primary_fill.latency_ms + hedge_fill.latency_ms
       IN  /\ x_hedge_fill' = hedge_fill
           /\ x_result' =
                 IF TimedOut(total_latency_ms)
                 THEN [success |-> FALSE, hedge_completed_ms |-> total_latency_ms,
                       message |-> "Hedge timeout exceeded"]
                 ELSE IF ~hedge_fill.success
                 THEN [success |-> FALSE, hedge_completed_ms |-> total_latency_ms,
                       message |-> "Hedge failed"]
                 ELSE [success |-> TRUE, hedge_completed_ms |-> total_latency_ms,
                       message |-> "Execution successful"]
    /\ x_pc' = "done"
    /\ UNCHANGED <<x_intent, x_primary_book, x_hedge_book, x_primary_fill, notSim>>

NextSim ==
    \/ \E latency \in Latencies : PrimaryLeg(latency)
    \/ \E latency \in Latencies : HedgeLeg(latency)

(***************************************************************************)
(* Specifications, one per component.                                      *)
(***************************************************************************)
\* The state of a component that a specification does not run.
IdleSM ==
    /\ max_attempts = 0
    /\ ctx_state = "READY"
    /\ ctx_attempts = 0
    /\ ctx_events = <<>>
    /\ pc = "loop"
    /\ calls = <<>>
    /\ results = <<>>

IdleRisk ==
    /\ exposure = [v \in Venues |-> 0]
    /\ approve_call = NoApprove
    /\ active_pairs = 0

IdleExec ==
    /\ executor = "polymarket"
    /\ open_orders = [i \in IntentIds |-> NoOrders]
    /\ next_order_id = 1
    /\ placed = [o \in OrderIds |-> NoPlacement]
    /\ cancel_requests = [o \in OrderIds |-> 0]
    /\ since_cancel = [i \in IntentIds |-> FALSE]
    /\ last_call = NoCall

IdleNonce ==
    /\ clock = 0
    /\ last_nonce = 0
    /\ nonce_lock = NoTask
    /\ task_pc = [t \in Tasks |-> "idle"]
    /\ task_nonce = [t \in Tasks |-> -1]
    /\ returned = <<>>
    /\ signed = <<>>

IdleAuth ==
    /\ k_now = 0
    /\ k_token = 0
    /\ k_expiry = 0
    /\ k_lock = NoTask
    /\ k_waiters = <<>>
    /\ k_next_token = 2
    /\ k_issued = [t \in 1..(2 * Cardinality(Reqs) + 1) |-> 0]
    /\ k_req = [r \in Reqs |-> NewReq]
    /\ k_writes = {}

IdleIngest ==
    /\ i_adapter = "kalshi"
    /\ i_tracked_arg = NoneList
    /\ i_tracked = NoneList
    /\ i_max_depth = 1
    /\ i_pc = "done"
    /\ i_raw = NoMessage
    /\ i_out = NoSnapshot

IdleStream ==
    /\ s_adapter = "kalshi"
    /\ s_running = FALSE
    /\ s_pc = "returned"
    /\ s_idx = 1
    /\ s_failures = 0
    /\ s_delays = <<>>
    /\ s_closed = FALSE
    /\ s_yielded = 0
    /\ s_after_close = 0

IdleRate ==
    /\ rl_cfg = [max_requests |-> 1, window_seconds |-> 2]
    /\ rl_now = 0
    /\ rl_requests = <<>>
    /\ rl_pc = [c \in Callers |-> "idle"]
    /\ rl_wake = [c \in Callers |-> 0]
    /\ rl_granted = <<>>

IdleLLM ==
    /\ llm_cfg = [primary_provider |-> "deepseek", enable_fallback |-> TRUE,
                  keys |-> {}, min_score |-> 92]
    /\ llm_pc = "idle"
    /\ llm_try = [p \in Providers |-> 0]
    /\ llm_retried = {}
    /\ usage_history = <<>>
    /\ llm_ok = [p \in Providers |-> 0]
    /\ llm_calls = 0
    /\ llm_pair = NoPair
    /\ llm_ended = "none"

IdleMatch ==
    /\ m_validators = <<>>
    /\ m_pc = "returned"
    /\ m_idx = 1
    /\ m_flag = FALSE
    /\ m_entry = FALSE
    /\ m_invoked = <<>>
    /\ m_returned = <<>>
    /\ m_out = "none"
    /\ m_candidates = 0

IdleHard ==
    /\ h_poly = NoMarket
    /\ h_kalshi = NoMarket
    /\ h_allowed = {}
    /\ h_pc = "validated"
    /\ h_window = NoWindow
    /\ h_passed = FALSE
    /\ h_notes = <<>>

IdleSignal ==
    /\ g_pc = "idle"
    /\ g_request = NoRequest
    /\ g_result = NoEdge
    /\ g_computed = 0

IdleDepth ==
    /\ d_max_levels = 3
    /\ d_has_books = FALSE
    /\ d_primary_asks = <<>>
    /\ d_hedge_bids = <<>>
    /\ d_size = 0
    /\ d_result = [kind |-> "idle", num |-> 0, den |-> 1]

IdleLeadLag ==
    /\ ll_history = <<>>
    /\ ll_calls = <<>>
    /\ ll_result = [leader |-> "idle", correlation |-> 0, stable |-> FALSE]

IdleSim ==
    /\ x_intent = [recommended_primary_side |-> "buy", max_notional |-> 100]
    /\ x_primary_book = [asks |-> <<>>, bids |-> <<>>]
    /\ x_hedge_book = [asks |-> <<>>, bids |-> <<>>]
    /\ x_pc = "done"
    /\ x_primary_fill = NoFill
    /\ x_hedge_fill = NoFill
    /\ x_result = NoSimResult

Init == InitSM /\ IdleRisk /\ IdleExec /\ IdleNonce /\ IdleAuth /\ IdleIngest /\ IdleStream /\ IdleRate
        /\ IdleLLM
        /\ IdleMatch
        /\ IdleHard
        /\ IdleSignal
        /\ IdleDepth
        /\ IdleLeadLag
        /\ IdleSim

Next == NextSM

\* One run of ExecutionStateMachine.execute against an arbitrary client.
Spec == Init /\ [][Next]_vars

\* The same run with the coroutine scheduled as long as it can step: every
\* client call returns and the event loop resumes execute.
FairSpec == Init /\ [][Next]_vars /\ WF_vars(Next)

\* One run of execute against a client whose calls may also raise.
RaisingSpec == Init /\ [][NextRaising]_vars

RiskInit == IdleSM /\ InitRisk /\ IdleExec /\ IdleNonce /\ IdleAuth /\ IdleIngest /\ IdleStream /\ IdleRate
        /\ IdleLLM
        /\ IdleMatch
        /\ IdleHard
        /\ IdleSignal
        /\ IdleDepth
        /\ IdleLeadLag
        /\ IdleSim

RiskNext == NextRisk

\* Serialized RiskManager.approve calls.
RiskSpec == RiskInit /\ [][RiskNext]_vars

ExecInit == IdleSM /\ IdleRisk /\ InitExec /\ IdleNonce /\ IdleAuth /\ IdleIngest /\ IdleStream /\ IdleRate
        /\ IdleLLM
        /\ IdleMatch
        /\ IdleHard
        /\ IdleSignal
        /\ IdleDepth
        /\ IdleLeadLag
        /\ IdleSim

ExecNext == NextExec

\* Any sequence of place_primary, hedge and cancel calls on one executor.
ExecSpec == ExecInit /\ [][ExecNext]_vars

NonceInit == IdleSM /\ IdleRisk /\ IdleExec /\ InitNonce /\ IdleAuth /\ IdleIngest /\ IdleStream /\ IdleRate
        /\ IdleLLM
        /\ IdleMatch
        /\ IdleHard
        /\ IdleSignal
        /\ IdleDepth
        /\ IdleLeadLag
        /\ IdleSim

NonceNext == NextNonceSteps

\* Concurrent order submissions drawing nonces.
NonceSpec == NonceInit /\ [][NonceNext]_vars

AuthInit == IdleSM /\ IdleRisk /\ IdleExec /\ IdleNonce /\ InitAuth /\ IdleIngest /\ IdleStream /\ IdleRate
        /\ IdleLLM
        /\ IdleMatch
        /\ IdleHard
        /\ IdleSignal
        /\ IdleDepth
        /\ IdleLeadLag
        /\ IdleSim

AuthNext == NextAuth

\* Concurrent Kalshi authenticated requests sharing one session token.
AuthSpec == AuthInit /\ [][AuthNext]_vars

IngestInit == IdleSM /\ IdleRisk /\ IdleExec /\ IdleNonce /\ IdleAuth /\ InitIngest /\ IdleStream /\ IdleRate
        /\ IdleLLM
        /\ IdleMatch
        /\ IdleHard
        /\ IdleSignal
        /\ IdleDepth
        /\ IdleLeadLag
        /\ IdleSim

IngestNext == NextIngest

\* One adapter streaming the messages of an arbitrary venue.
IngestSpec == IngestInit /\ [][IngestNext]_vars

StreamInit ==
    IdleSM /\ IdleRisk /\ IdleExec /\ IdleNonce /\ IdleAuth /\ IdleIngest /\ InitStream
        /\ IdleRate
        /\ IdleLLM
        /\ IdleMatch
        /\ IdleHard
        /\ IdleSignal
        /\ IdleDepth
        /\ IdleLeadLag
        /\ IdleSim

StreamNext == NextStream

\* One adapter's stream_orderbooks with a venue that may fail and an
\* orchestrator that may call close().
StreamSpec == StreamInit /\ [][StreamNext]_vars

RateInit ==
    IdleSM /\ IdleRisk /\ IdleExec /\ IdleNonce /\ IdleAuth /\ IdleIngest /\ IdleStream
        /\ InitRate
        /\ IdleLLM
        /\ IdleMatch
        /\ IdleHard
        /\ IdleSignal
        /\ IdleDepth
        /\ IdleLeadLag
        /\ IdleSim

RateNext == NextRate

\* Coroutines calling acquire on one limiter while the clock runs.
RateSpec == RateInit /\ [][RateNext]_vars

LLMInit ==
    IdleSM /\ IdleRisk /\ IdleExec /\ IdleNonce /\ IdleAuth /\ IdleIngest /\ IdleStream
        /\ IdleRate /\ InitLLM
        /\ IdleMatch
        /\ IdleHard
        /\ IdleSignal
        /\ IdleDepth
        /\ IdleLeadLag
        /\ IdleSim

LLMNext == NextLLM

\* validate calls against providers that answer as they like.
LLMSpec == LLMInit /\ [][LLMNext]_vars

\* The same, with every HTTP attempt coming to an answer or a timeout.
LLMFairSpec == LLMInit /\ [][LLMNext]_vars /\ WF_vars(LLMNext)

MatchInit ==
    IdleSM /\ IdleRisk /\ IdleExec /\ IdleNonce /\ IdleAuth /\ IdleIngest /\ IdleStream /\ IdleRate /\ IdleLLM
        /\ InitMatch
        /\ IdleHard
        /\ IdleSignal
        /\ IdleDepth
        /\ IdleLeadLag
        /\ IdleSim

MatchNext == NextMatch

\* run over a generator of candidates and a list of validators.
MatchSpec == MatchInit /\ [][MatchNext]_vars

HardInit ==
    IdleSM /\ IdleRisk /\ IdleExec /\ IdleNonce /\ IdleAuth /\ IdleIngest /\ IdleStream /\ IdleRate /\ IdleLLM /\ IdleMatch
        /\ InitHard
        /\ IdleSignal
        /\ IdleDepth
        /\ IdleLeadLag
        /\ IdleSim

HardNext == NextHard

\* One candidate built from two markets and run through the hard rules.
HardSpec == HardInit /\ [][HardNext]_vars

SignalInit ==
    IdleSM /\ IdleRisk /\ IdleExec /\ IdleNonce /\ IdleAuth /\ IdleIngest /\ IdleStream /\ IdleRate /\ IdleLLM /\ IdleMatch /\ IdleHard
        /\ InitSignal
        /\ IdleDepth
        /\ IdleLeadLag
        /\ IdleSim

SignalNext == NextSignal

\* Requests computed one after another.
SignalSpec == SignalInit /\ [][SignalNext]_vars

DepthInit ==
    IdleSM /\ IdleRisk /\ IdleExec /\ IdleNonce /\ IdleAuth /\ IdleIngest /\ IdleStream /\ IdleRate /\ IdleLLM /\ IdleMatch /\ IdleHard /\ IdleSignal
        /\ InitDepth
        /\ IdleLeadLag
        /\ IdleSim

DepthNext == NextDepth

\* One slippage estimate for a pair of books and a target size.
DepthSpec == DepthInit /\ [][DepthNext]_vars

LeadLagInit ==
    IdleSM /\ IdleRisk /\ IdleExec /\ IdleNonce /\ IdleAuth /\ IdleIngest /\ IdleStream /\ IdleRate /\ IdleLLM /\ IdleMatch /\ IdleHard /\ IdleSignal /\ IdleDepth
        /\ InitLeadLag
        /\ IdleSim

LeadLagNext == NextLeadLag

\* analyze calls for one pair, one after another.
LeadLagSpec == LeadLagInit /\ [][LeadLagNext]_vars

SimInit ==
    IdleSM /\ IdleRisk /\ IdleExec /\ IdleNonce /\ IdleAuth /\ IdleIngest /\ IdleStream /\ IdleRate /\ IdleLLM /\ IdleMatch /\ IdleHard /\ IdleSignal /\ IdleDepth /\ IdleLeadLag
        /\ InitSim

SimNext == NextSim

\* One simulated execution over a pair of books.
SimSpec == SimInit /\ [][SimNext]_vars

(***************************************************************************)
(* Properties of ExecutionStateMachine.execute  (Spec, FairSpec)           *)
(***************************************************************************)
IsOp(k, op) == calls[k].op = op

AcceptedPrimaries == {k \in DOMAIN calls : IsOp(k, "place_primary") /\ calls[k].ret}

AcceptedHedges == {k \in DOMAIN calls : IsOp(k, "hedge") /\ calls[k].ret}

FailedHedges == {k \in DOMAIN calls : IsOp(k, "hedge") /\ ~calls[k].ret}

CancelCalls == {k \in DOMAIN calls : IsOp(k, "cancel")}

PrimaryCalls == {k \in DOMAIN calls : IsOp(k, "place_primary")}

\* execute has returned success=True with the context SETTLED.
Settled == pc = "done" /\ ctx_state = "SETTLED" /\ Len(results) = 1 /\ results[1].success

\* C1: no legging.  A hedge that returns false is followed, in the same
\* attempt and before anything else, by cancel(intent); and whenever execute
\* is about to start an attempt or has returned, every accepted primary was
\* either hedged or followed by a cancel in its own attempt.
C1_NoLegging ==
    /\ \A k \in FailedHedges :
          IF k = Len(calls)
          THEN pc = "cancel"
          ELSE IsOp(k + 1, "cancel") /\ calls[k + 1].attempt = calls[k].attempt
    /\ pc \in {"loop", "done"} =>
          \A k \in AcceptedPrimaries :
             \E j \in DOMAIN calls :
                /\ j > k
                /\ calls[j].attempt = calls[k].attempt
                /\ IsOp(j, "cancel") \/ (IsOp(j, "hedge") /\ calls[j].ret)

\* execute returned after an attempt whose hedge failed and was cancelled.
C1_Witness ==
    /\ pc = "done"
    /\ \E k \in FailedHedges : k < Len(calls) /\ IsOp(k + 1, "cancel")

\* C2 as claimed: a run that ends SETTLED made, over all its attempts, exactly
\* one accepted place_primary call and exactly one accepted hedge call.
C2_ExactlyOnePrimaryOneHedge ==
    Settled => Cardinality(AcceptedPrimaries) = 1 /\ Cardinality(AcceptedHedges) = 1

\* C2 amended: a run that ends SETTLED made exactly one accepted hedge call,
\* in its last attempt, which also holds exactly one accepted primary; every
\* other accepted primary belongs to an earlier attempt whose hedge failed and
\* which was cancelled, so accepted primaries = 1 + cancels.
C2_OneHedgeOneLivePrimary ==
    Settled =>
        /\ Cardinality(AcceptedHedges) = 1
        /\ \A h \in AcceptedHedges : h = Len(calls) /\ calls[h].attempt = ctx_attempts
        /\ Cardinality({k \in AcceptedPrimaries : calls[k].attempt = ctx_attempts}) = 1
        /\ \A k \in AcceptedPrimaries :
              calls[k].attempt # ctx_attempts =>
                 /\ \E j \in FailedHedges : calls[j].attempt = calls[k].attempt
                 /\ \E j \in CancelCalls : calls[j].attempt = calls[k].attempt
        /\ Cardinality(AcceptedPrimaries) = 1 + Cardinality(CancelCalls)

\* A run that settled on a retry, after an earlier accepted primary was cancelled.
C2_Witness == Settled /\ Cardinality(AcceptedPrimaries) = 2

\* C3: execute terminates with exactly one ExecutionResult, after at most
\* max_attempts place_primary calls; ctx.attempts never exceeds max_attempts.
C3_TerminatesWithOneResult ==
    /\ [](/\ ctx_attempts <= max_attempts
          /\ Cardinality(PrimaryCalls) <= max_attempts
          /\ Len(results) = (IF pc = "done" THEN 1 ELSE 0))
    /\ <>(pc = "done")

\* execute returned after using every attempt.
C3_Witness ==
    /\ pc = "done"
    /\ Len(results) = 1
    /\ max_attempts >= 2
    /\ Cardinality(PrimaryCalls) = max_attempts

\* C4 as claimed: an accepted hedge that took longer than hedge_completion_ms
\* is treated as a hedge failure: the attempt is cancelled, not SETTLED.
C4_SlowHedgeIsFailure ==
    \A k \in AcceptedHedges :
        calls[k].elapsed > hedge_completion_ms =>
            IF k = Len(calls)
            THEN pc = "cancel" /\ ctx_state # "SETTLED"
            ELSE IsOp(k + 1, "cancel")

\* C5: hedge is called only right after its attempt's place_primary returned
\* true; cancel only right after its attempt's hedge returned, never before a
\* hedge and never in an attempt whose primary was rejected.
C5_PrimaryThenHedgeThenCancel ==
    /\ \A k \in DOMAIN calls :
          IsOp(k, "hedge") =>
             /\ k > 1
             /\ IsOp(k - 1, "place_primary")
             /\ calls[k - 1].ret
             /\ calls[k - 1].attempt = calls[k].attempt
    /\ \A k \in CancelCalls :
          /\ k > 1
          /\ IsOp(k - 1, "hedge")
          /\ calls[k - 1].attempt = calls[k].attempt
          /\ \A j \in PrimaryCalls : calls[j].attempt = calls[k].attempt => calls[j].ret

\* A cancel was made, in the second attempt, after a rejected first attempt.
C5_Witness ==
    \E k \in CancelCalls :
        /\ calls[k].attempt = 2
        /\ \E j \in PrimaryCalls : calls[j].attempt = 1 /\ ~calls[j].ret

(***************************************************************************)
(* Properties of RiskManager.approve  (RiskSpec)                           *)
(***************************************************************************)
IncrementCalls == {k \in DOMAIN approve_call.store_calls :
                      approve_call.store_calls[k].op = "increment_notional"}

\* C6: started at or below the cap, no venue's total notional ever exceeds
\* venue_cap, whatever intents (max_notional >= 0) are put to approve.
C6_VenueCapHolds == \A v \in Venues : exposure[v] <= venue_cap

\* An intent was approved that filled its venue exactly to the cap.
C6_Witness ==
    /\ approve_call.called
    /\ approve_call.result
    /\ approve_call.intent.max_notional > 0
    /\ exposure[approve_call.intent.primary] = venue_cap

\* C7: a step in which approve returns false makes no increment_notional call
\* and leaves every venue's exposure as it was.
C7_RejectChangesNothing ==
    [][(approve_call'.called /\ ~approve_call'.result) =>
          (exposure' = exposure /\
           \A k \in DOMAIN approve_call'.store_calls :
               approve_call'.store_calls[k].op # "increment_notional")]_vars

\* The spec's scenario: exposure 4,900 of 5,000, an intent of 200 is rejected.
C7_Witness ==
    /\ approve_call.called
    /\ ~approve_call.result
    /\ approve_call.intent.max_notional = 200
    /\ exposure[approve_call.intent.primary] = venue_cap - 100

\* C34: approve rejects an intent that would take the approved pairs above
\* concurrent_pairs; never are more than concurrent_pairs approved pairs
\* active.
C34_ConcurrentPairsHeld == active_pairs <= concurrent_pairs

\* C39: approve reads, checks and increments the exposure of the intent's
\* primary venue only; an approval adds exactly max_notional to that venue,
\* and the hedge venue's exposure is neither read nor changed.
C39_PrimaryVenueOnly ==
    [][approve_call'.called =>
          LET intent == approve_call'.intent
          IN  /\ \A k \in DOMAIN approve_call'.store_calls :
                     approve_call'.store_calls[k].venue = intent.primary
              /\ exposure'[intent.hedge] = exposure[intent.hedge]
              /\ exposure'[intent.primary] =
                     IF approve_call'.result
                     THEN exposure[intent.primary] + intent.max_notional
                     ELSE exposure[intent.primary]]_vars

\* An intent was approved although its amount on top of the hedge venue's
\* exposure is above the cap.
C39_Witness ==
    /\ approve_call.called
    /\ approve_call.result
    /\ approve_call.intent.max_notional = 200
    /\ exposure[approve_call.intent.hedge] = venue_cap - 100

\* C37: when hedge or place_primary raises, execute has still emitted one
\* failed ExecutionResult, and an accepted primary of the attempt whose hedge
\* raised has been followed by a cancel.
C37_RaiseStillCancelsAndReports ==
    pc = "raised" =>
        /\ Len(results) = 1
        /\ ~results[1].success
        /\ calls[Len(calls)].op = "hedge_raised" =>
               \E k \in DOMAIN calls :
                   /\ calls[k].op = "cancel"
                   /\ calls[k].attempt = calls[Len(calls)].attempt

(***************************************************************************)
(* Properties of the venue executors  (ExecSpec)                           *)
(***************************************************************************)
OrdersPlacedFor(i) == {o \in OrderIds : placed[o].intent_id = i}

C9_CancelReachesPlacedOrders ==
    last_call.op = "cancel" =>
        /\ \A o \in OrdersPlacedFor(last_call.intent_id) : cancel_requests[o] >= 1
        /\ \A o \in last_call.sent : placed[o].intent_id = last_call.intent_id

IntentOf(i) == CHOOSE intent \in ExecIntents : intent.intent_id = i

LegOf(op) == IF op = "place_primary" THEN "primary" ELSE "hedge"

\* C35: a submission answered 2xx without an order id makes place_primary or
\* hedge return false, and no placement is reported successful unless an
\* order id is tracked for the intent's leg.
C35_NoIdIsUnsuccessful ==
    /\ last_call.answer = "accepted_no_id" => last_call.ret = "false"
    /\ (last_call.answer # "none" /\ last_call.ret = "true") =>
           open_orders[last_call.intent_id][LegOf(last_call.op)] # 0

\* The intent has a hedge order and it is made out to a venue other than the
\* intent's primary venue.
HedgeOffPrimaryVenue(intent) ==
    intent.hedge_order # "none" /\ ~intent.hedge_on_primary

\* The hedge call of the step returned true, submitted nothing and left the
\* executor's orders as they were.
SkippedHedge ==
    /\ last_call'.ret = "true"
    /\ last_call'.answer = "none"
    /\ UNCHANGED <<open_orders, next_order_id, placed>>

\* C36 as claimed: hedge returns true without submitting and without touching
\* open_orders whenever the intent has no hedge order or its hedge order is
\* made out to a venue other than the primary venue.
C36_SkipsWheneverOffPrimaryVenue ==
    [][(/\ last_call'.op = "hedge"
        /\ \/ IntentOf(last_call'.intent_id).hedge_order = "none"
           \/ HedgeOffPrimaryVenue(IntentOf(last_call'.intent_id)))
       => SkippedHedge]_vars

\* C36: hedge returns true without submitting and without touching
\* open_orders when the intent has no hedge order, or its hedge order is on
\* edge.hedge.venue and that is not the primary venue; for such intents the
\* executor never places a hedge order, although the true it returns settles
\* the state machine.  A hedge order on a venue other than edge.hedge.venue
\* makes hedge return false, again without submitting.
C36_SkipsHedgeOfOtherVenue ==
    /\ [][last_call'.op = "hedge" =>
             LET intent == IntentOf(last_call'.intent_id)
             IN  /\ intent.hedge_order \in {"none", "other_venue"} => SkippedHedge
                 /\ intent.hedge_order = "mismatch" =>
                        /\ last_call'.ret = "false"
                        /\ last_call'.answer = "none"
                        /\ UNCHANGED <<open_orders, next_order_id, placed>>]_vars
    /\ [](\A o \in OrderIds :
             (placed[o].leg = "hedge") =>
                 IntentOf(placed[o].intent_id).hedge_order = "same_venue")

\* The executor accepted the primary of an intent whose hedge goes to the
\* other venue, and its hedge call then returned true with nothing submitted.
C36_Witness ==
    /\ last_call.op = "hedge"
    /\ last_call.ret = "true"
    /\ last_call.answer = "none"
    /\ IntentOf(last_call.intent_id).hedge_order = "other_venue"
    /\ open_orders[last_call.intent_id]["primary"] # 0
    /\ open_orders[last_call.intent_id]["hedge"] = 0

\* C38: an order whose venue cancel request failed is still tracked for the
\* intent after cancel(intent) returns.
C38_FailedCancelKeepsOrderTracked ==
    last_call.op = "cancel" =>
        \A o \in last_call.failed : o \in TrackedOrders(last_call.intent_id)

(***************************************************************************)
(* Properties of PolymarketExecutor._next_nonce  (NonceSpec)               *)
(***************************************************************************)
\* C10: every value _next_nonce returns is strictly greater than all it
\* returned before, and no two signed orders carry the same nonce.
C10_NonceStrictlyMonotonic ==
    /\ \A j, k \in DOMAIN returned : j < k => returned[j] < returned[k]
    /\ \A j, k \in DOMAIN signed : j # k => signed[j] # signed[k]

\* Two orders were signed and a nonce was bumped past a clock that had not
\* advanced beyond the previous nonce.
C10_Witness ==
    /\ Len(signed) >= 2
    /\ \E k \in DOMAIN returned :
          k > 1 /\ returned[k] = returned[k - 1] + 1 /\ returned[k] > clock

(***************************************************************************)
(* Further properties of ExecutionStateMachine.execute  (Spec)             *)
(***************************************************************************)
\* Every attempt was used and place_primary returned false in each.
AllPrimariesRejected ==
    /\ pc = "done"
    /\ max_attempts >= 1
    /\ Cardinality(PrimaryCalls) = max_attempts
    /\ AcceptedPrimaries = {}

\* C14 as claimed: when place_primary is rejected on every attempt, execute
\* logs primary_rejected once per attempt, returns success=false and leaves
\* the context in state FAILED.
C14_AllRejectedEndsFailed ==
    AllPrimariesRejected =>
        /\ ctx_events = [k \in 1..max_attempts |-> "primary_rejected"]
        /\ Len(results) = 1
        /\ ~results[1].success
        /\ ctx_state = "FAILED"

\* The edges of the documented state graph: READY -> PRIMARY_PLACED ->
\* HEDGE_PLACED -> SETTLED, and any non-terminal state -> FAILED.
StateEdges ==
    {<<"READY", "PRIMARY_PLACED">>, <<"PRIMARY_PLACED", "HEDGE_PLACED">>,
     <<"HEDGE_PLACED", "SETTLED">>, <<"READY", "FAILED">>,
     <<"PRIMARY_PLACED", "FAILED">>, <<"HEDGE_PLACED", "FAILED">>}

\* C15 as claimed: every change of ctx.state follows an edge of the state
\* graph; SETTLED is entered only from HEDGE_PLACED and FAILED is never left.
C15_StateFollowsEdges ==
    [][ctx_state' # ctx_state => <<ctx_state, ctx_state'>> \in StateEdges]_vars

(***************************************************************************)
(* Properties of the Kalshi session token  (AuthSpec)                      *)
(***************************************************************************)
Finished(r) == k_req[r].pc \in {"returned", "raised"}

FirstAnswer401(r) == Len(k_req[r].responses) >= 1 /\ k_req[r].responses[1] = 401

\* C11 as claimed: a 401 leads to exactly one invalidation, one forced login
\* and one resend; a second 401 goes to the caller; never more than two sends
\* or one forced login per request.
C11_One401RefreshAndResend ==
    \A r \in Reqs :
        /\ Len(k_req[r].sends) <= 2
        /\ k_req[r].forced_logins <= 1
        /\ (Finished(r) /\ FirstAnswer401(r)) =>
              /\ k_req[r].invalidations = 1
              /\ k_req[r].forced_logins = 1
              /\ Len(k_req[r].sends) = 2
        /\ k_req[r].responses = <<401, 401>> => k_req[r].pc = "returned"

\* C11 amended: a 401 to the first send leads to exactly one invalidation and
\* one forced login; if that login succeeds the request is resent exactly once
\* and the answer to the resend, a 401 included, goes to the caller; if the
\* forced login fails, KalshiAuthError is raised and nothing is resent.  No
\* request makes more than two sends, one invalidation or one forced login.
C11_One401RefreshThenResendOrRaise ==
    \A r \in Reqs :
        /\ Len(k_req[r].sends) <= 2
        /\ k_req[r].forced_logins <= 1
        /\ k_req[r].invalidations <= 1
        /\ FirstAnswer401(r) =>
              /\ k_req[r].invalidations = 1
              /\ k_req[r].pc # "wait_lock" => k_req[r].forced_logins = 1
        /\ (Finished(r) /\ FirstAnswer401(r)) =>
              \/ Len(k_req[r].sends) = 2 /\ Len(k_req[r].responses) = 2
              \/ /\ k_req[r].pc = "raised"
                 /\ Len(k_req[r].sends) = 1
                 /\ Len(k_req[r].responses) = 1
        /\ (Len(k_req[r].responses) >= 1 /\ ~FirstAnswer401(r)) =>
              /\ Finished(r)
              /\ Len(k_req[r].sends) = 1
              /\ k_req[r].invalidations = 0
              /\ k_req[r].forced_logins = 0
        /\ k_req[r].responses = <<401, 401>> => k_req[r].pc = "returned"

\* A request got 401 twice: it refreshed once, resent once and returned the 401.
C11_Witness ==
    \E r \in Reqs :
        /\ k_req[r].responses = <<401, 401>>
        /\ k_req[r].pc = "returned"
        /\ k_req[r].forced_logins = 1
        /\ Len(k_req[r].sends) = 2

\* C12 as claimed: every write to the token or its expiry is made by the
\* coroutine that holds the token lock.
C12_TokenWrittenUnderLock == \A w \in k_writes : w.lock = w.by

\* The freshness condition of _ensure_token, for a token sent at a time.
PassesFreshness(send) ==
    send.token # 0 /\ send.at < send.expiry - token_refresh_slack_seconds

\* No request was forced: none got a 401.
NonForcedRun == \A r \in Reqs : ~k_req[r].force /\ k_req[r].invalidations = 0

\* The run began with no token, or with one inside the refresh slack.
StaleAtStart == k_issued[1] = 0 \/ ~(0 < k_issued[1] - token_refresh_slack_seconds)

TokensIssued == k_next_token - 2

Emitted == i_out # NoSnapshot

Count(s, v) == Cardinality({k \in DOMAIN s : s[k] = v})

Ascending(s) == \A j, k \in DOMAIN s : j < k => s[j].price <= s[k].price

Descending(s) == \A j, k \in DOMAIN s : j < k => s[j].price >= s[k].price

\* The positions of a raw side that lie within max_depth and hold a level
\* with p > 0 and s > 0.
Qualifying(levels) ==
    { k \in DOMAIN levels : k <= i_max_depth /\ levels[k].price > 0 /\ levels[k].size > 0 }

AskOf(l) == [price |-> 100 - l.price, size |-> l.size]

BidOf(l) == [price |-> l.price, size |-> l.size]

\* C16: in a snapshot of a Kalshi adapter the asks are, with multiplicity,
\* the levels (1 - p/100, s) of the NO levels (p, s) within max_depth that have
\* p > 0 and s > 0, the bids are (p/100, s) of such YES levels, asks ascend and
\* bids descend; and a well-formed book of a tracked market with such a level
\* is emitted.
C16_KalshiNoLevelsBecomeAsks ==
    i_adapter \in KalshiAdapters =>
        /\ Emitted =>
              /\ \A k \in Qualifying(i_raw.asks) :
                    Count(i_out.asks, AskOf(i_raw.asks[k])) =
                       Cardinality({j \in Qualifying(i_raw.asks) :
                                       AskOf(i_raw.asks[j]) = AskOf(i_raw.asks[k])})
              /\ \A a \in Range(i_out.asks) :
                    \E k \in Qualifying(i_raw.asks) : AskOf(i_raw.asks[k]) = a
              /\ \A k \in Qualifying(i_raw.bids) :
                    Count(i_out.bids, BidOf(i_raw.bids[k])) =
                       Cardinality({j \in Qualifying(i_raw.bids) :
                                       BidOf(i_raw.bids[j]) = BidOf(i_raw.bids[k])})
              /\ \A b \in Range(i_out.bids) :
                    \E k \in Qualifying(i_raw.bids) : BidOf(i_raw.bids[k]) = b
              /\ Ascending(i_out.asks)
              /\ Descending(i_out.bids)
        /\ ( /\ i_pc = "done"
             /\ i_raw.kind = "book"
             /\ \A l \in Range(i_raw.bids) \cup Range(i_raw.asks) : l.shape = "ok"
             /\ ~Untracked(i_tracked, i_raw.market)
             /\ Qualifying(i_raw.bids) \cup Qualifying(i_raw.asks) # {} )
           => Emitted

\* A Kalshi book with three NO levels and max_depth 2: the first two became
\* asks, and the sort put them in the other order.
C16_Witness ==
    /\ i_adapter \in KalshiAdapters
    /\ Emitted
    /\ i_max_depth = 2
    /\ Len(i_raw.asks) = 3
    /\ i_raw.asks[1].price < i_raw.asks[2].price
    /\ Len(i_out.asks) = 2
    /\ i_out.asks[1] = AskOf(i_raw.asks[2])
    /\ i_out.asks[2] = AskOf(i_raw.asks[1])

\* C17 as claimed: every emitted snapshot, of any of the four adapters, has
\* its bids in descending and its asks in ascending price order.
C17_EmittedBooksSorted == Emitted => Descending(i_out.bids) /\ Ascending(i_out.asks)

\* C18 as claimed: every level of every emitted snapshot has a price
\* strictly between 0 and 1 and a size above 0.
C18_EmittedLevelsInRange ==
    \A l \in Range(i_out.bids) \cup Range(i_out.asks) :
        0 < l.price /\ l.price < 100 /\ l.size > 0

\* C19 as claimed: when a tracked_markets list was given, the empty list
\* included, every emitted snapshot is of a market in the list.
C19_AllowListRespected ==
    (i_tracked_arg.given /\ Emitted) => i_out.market_id \in i_tracked_arg.list

\* A message the adapter cannot read: not JSON, not an object, or with a
\* level among those it reads that lacks an element or is not numeric.
Malformed(raw) ==
    \/ raw.kind \in {"bad_json", "non_object"}
    \/ \E l \in Range(Scanned(raw, i_max_depth)) : l.shape # "ok"

\* C20 as claimed: a websocket adapter that has handled a malformed message
\* has emitted nothing for it and is still on the same connection.
C20_MalformedMessageDropped ==
    (i_adapter \in WsAdapters /\ i_pc # "recv" /\ Malformed(i_raw)) =>
        (i_pc = "done" /\ ~Emitted)

(***************************************************************************)
(* Properties of reconnection and shutdown  (StreamSpec)                   *)
(***************************************************************************)
\* C21 as claimed: of the delays slept after consecutive connection failures
\* each is longer than the one before.
C21_BackoffGrows ==
    \A k \in DOMAIN s_delays : k > 1 => s_delays[k] > s_delays[k - 1]

\* C22 as claimed: there is a number N of consecutive failures beyond which
\* a running adapter stops and raises.  The count of failures passes through
\* every value below MaxFailures on its way there, so if any N < MaxFailures
\* worked, an adapter with MaxFailures failures would have raised.
C22_PersistentFailureSurfaces ==
    (s_running /\ s_failures >= MaxFailures) => s_pc = "raised"

\* C23 as claimed: after close() stream_orderbooks yields no further snapshot.
C23_NothingEmittedAfterClose == s_after_close = 0

(***************************************************************************)
(* Properties of RateLimiter  (RateSpec)                                   *)
(***************************************************************************)
\* The acquire calls that returned in the window of window_seconds ending at t.
GrantedInWindow(t) ==
    { k \in DOMAIN rl_granted :
        rl_granted[k] > t - rl_cfg.window_seconds /\ rl_granted[k] <= t }

\* C24: at most max_requests acquire calls return within any sliding window
\* of window_seconds, whatever the interleaving of the callers.
C24_AtMostMaxPerWindow ==
    \A t \in 0..(MaxNow + 1) : Cardinality(GrantedInWindow(t)) <= rl_cfg.max_requests

\* The limiter was full, a caller slept, and was let through later.
C24_Witness ==
    /\ Len(rl_granted) > rl_cfg.max_requests
    /\ rl_cfg.max_requests = 2
    /\ \E c \in Callers : rl_wake[c] > 0 /\ rl_pc[c] = "idle"

(***************************************************************************)
(* Properties of the LLM client and validator  (LLMSpec, LLMFairSpec)      *)
(***************************************************************************)
EntriesOf(provider) ==
    { k \in DOMAIN usage_history : usage_history[k].provider = provider }

RECURSIVE CostUpTo(_)
CostUpTo(n) == IF n = 0 THEN 0 ELSE usage_history[n].cost_usd + CostUpTo(n - 1)

\* C25: usage_history holds one entry for each response a provider gave
\* successfully and none for a failed attempt, and get_total_cost() is the sum
\* of cost_usd over the entries.
C25_OneEntryPerSuccess ==
    /\ \A p \in Providers : Cardinality(EntriesOf(p)) = llm_ok[p]
    /\ get_total_cost = CostUpTo(Len(usage_history))

\* The primary failed three times, the fallback answered: one entry, for
\* the fallback.
C25_Witness ==
    /\ llm_ended = "parsed"
    /\ llm_try[llm_cfg.primary_provider] = stop_after_attempt
    /\ llm_ok[llm_cfg.primary_provider] = 0
    /\ Len(usage_history) = 1
    /\ usage_history[1].provider = FallbackOf(llm_cfg.primary_provider)
    /\ get_total_cost > 0

\* C26 as claimed: when complete ends in an error, validate returns with
\* llm_similarity 0 and the pair marked rejected.
C26_FailureRejectsPair ==
    llm_ended = "error" =>
        /\ llm_pair.validate = "returned"
        /\ llm_pair.llm_similarity = 0
        /\ ~llm_pair.hard_rules_passed

C27_Bounds ==
    /\ \A p \in Providers : llm_try[p] <= 3
    /\ llm_try["deepseek"] + llm_try["openai"] <= 6
    /\ llm_retried \subseteq {"HTTPStatusError", "TimeoutException"}
    /\ llm_pc = "primary" => llm_try[FallbackOf(llm_cfg.primary_provider)] = 0
    /\ llm_try[FallbackOf(llm_cfg.primary_provider)] > 0 => llm_cfg.enable_fallback
    /\ (llm_pc = "idle" /\ llm_pair.validate # "none") => llm_ended \in {"parsed", "error"}

Concluded == m_out \in {"yielded", "dropped"}

\* Every validator of the list was invoked and returned the pair passed.
EveryValidatorPassed ==
    /\ Len(m_returned) = Len(m_validators)
    /\ \A k \in DOMAIN m_returned : m_returned[k]

InListOrder == \A k \in DOMAIN m_invoked : m_invoked[k] = k

\* After a validator returned the pair rejected nothing further is invoked
\* and the pair is not yielded.
StopsAtRejection ==
    \A k \in DOMAIN m_returned :
        ~m_returned[k] => (Len(m_invoked) = k /\ m_out # "yielded")

time_window_tolerance_hours == 24

\* Each side is open at least one hour and the close times are within the
\* tolerance.
TimeWindowRule ==
    /\ h_poly.close_time - h_poly.open_time >= 1
    /\ h_kalshi.close_time - h_kalshi.open_time >= 1
    /\ Abs(h_poly.close_time - h_kalshi.close_time) <= time_window_tolerance_hours

\* Neither side has a threshold, or both have the same operator and values
\* within 0.01.
ThresholdRule ==
    LET a == extract_numeric_threshold(h_poly.title)
        b == extract_numeric_threshold(h_kalshi.title)
    IN  \/ ~a.found /\ ~b.found
        \/ a.found /\ b.found /\ a.op = b.op /\ Abs(a.value - b.value) <= 1

\* The sources are identical or the pair of them is allow-listed.
ResolutionSourceRule ==
    \/ h_poly.resolution_source = h_kalshi.resolution_source
    \/ <<h_poly.resolution_source, h_kalshi.resolution_source>> \in h_allowed
    \/ <<h_kalshi.resolution_source, h_poly.resolution_source>> \in h_allowed

\* C29: validate sets hard_rules_passed only if the time-window rule, the
\* threshold rule and the resolution-source rule all hold, and a violated
\* rule gives hard_rules_passed = false with the reason in notes.
C29_PassedOnlyIfAllRulesHold ==
    h_pc = "validated" =>
        IF TimeWindowRule /\ ThresholdRule /\ ResolutionSourceRule
        THEN h_passed
        ELSE ~h_passed /\ h_notes # <<>>

(***************************************************************************)
(* Properties of SignalService.compute  (SignalSpec)                       *)
(***************************************************************************)
NetEdge ==
    g_request.hedge_price - g_request.primary_price
        - g_request.friction_cost - g_request.slippage

\* C30: compute emits an EdgeComputation iff the net edge is at least
\* min_edge_cents and the hedge probability is at least
\* min_hedge_probability; otherwise it returns no signal.
C30_EmitsIffEdgeAndHedgeProbability ==
    g_pc = "computed" =>
        (g_result.emitted <=>
            (NetEdge >= min_edge_cents
                /\ g_request.hedge_probability >= min_hedge_probability))

(***************************************************************************)
(* Properties of DepthModel.expected_slippage_cents  (DepthSpec)           *)
(***************************************************************************)
RECURSIVE Notional(_)
Notional(levels) ==
    IF levels = <<>> THEN 0
    ELSE levels[1].price * levels[1].size + Notional(Tail(levels))

\* The top max_levels levels of the side hold the whole target notional.
CanFill(levels) == Notional(TopLevels(levels, d_max_levels)) >= d_size

\* C31: with both books given, the result is the 2% penalty whenever a leg's
\* top levels cannot fill the target notional, and a VWAP slippage only when
\* both legs can.
C31_PenaltyWheneverALegCannotFill ==
    (d_has_books /\ d_result.kind \in {"penalty", "vwap"}) =>
        /\ (~CanFill(d_primary_asks) \/ ~CanFill(d_hedge_bids)) =>
              (d_result.kind = "penalty" /\ d_result.num = 2 * d_size /\ d_result.den = 100)
        /\ d_result.kind = "vwap" => (CanFill(d_primary_asks) /\ CanFill(d_hedge_bids))

(***************************************************************************)
(* Properties of LeadLagAnalyzer.analyze  (LeadLagSpec)                    *)
(***************************************************************************)
LastFour(seq) == IF Len(seq) <= 4 THEN seq ELSE SubSeq(seq, Len(seq) - 3, Len(seq))

TimesIn(seq, leader) == Cardinality({ k \in DOMAIN seq : seq[k] = leader })

IsDetected(leader) == leader # "none"

\* The leaders that were detected, call by call, without the calls that
\* detected none.
DetectedLeaders == SelectSeq(ll_calls, IsDetected)

LatencySum == x_primary_fill.latency_ms + x_hedge_fill.latency_ms

\* C33: the result is a success iff the primary fill succeeded, the hedge
\* fill succeeded and the two latencies together are within
\* hedge_timeout_ms; over the budget the result is the failure "Hedge
\* timeout exceeded" whatever the hedge fill came to.
C33_SuccessIffBothFillInBudget ==
    x_pc = "done" =>
        /\ x_result.success <=>
              (x_primary_fill.success /\ x_hedge_fill.success /\ LatencySum <= 250)
        /\ (x_primary_fill.success /\ LatencySum > 250) =>
              (~x_result.success /\ x_result.message = "Hedge timeout exceeded")

\* Over the budget with a hedge fill that failed as well: the timeout is
\* what is reported.
C33_Witness ==
    /\ x_pc = "done"
    /\ x_primary_fill.success
    /\ ~x_hedge_fill.success
    /\ LatencySum > 250
    /\ x_result.message = "Hedge timeout exceeded"

\* C40: a successful result has a hedge leg filled to the size of the
\* primary leg.
C40_SuccessIsFullyHedged ==
    x_result.success => x_hedge_fill.filled_size = x_primary_fill.filled_size

====
